---- MODULE Spec2Model ----
(***************************************************************************)
(* Model of the answering-machine detection pipeline:                      *)
(*   AudioProcessor  (timing ledger parsing, payload read, WAV synthesis)  *)
(*   WavHeaderGenerator                                                    *)
(*   BatchProcessor  (discovery, per-item workflow, batch summary)         *)
(* Strings are sequences of one-character strings, so that trim, split,    *)
(* replace and parseInt are computed character by character.               *)
(***************************************************************************)
EXTENDS Integers, Sequences, FiniteSets, TLC

VARIABLES
    call,        \* a call of a library function on drawn inputs: [op, ...]
    ret,         \* what that call returned or threw
    files,       \* names of the files in the batch folder
    disk,        \* contents of the input artifacts read so far: name -> file
    written,     \* output files written so far: path -> content
    madeDirs,    \* directories created so far
    outputDir,   \* PATHS.OUTPUT_DIR
    dataDir,     \* PATHS.DATA_DIR
    pc,          \* position of processFolderBatch / processCompleteWorkflow
    originalOutputDir,  \* local of processFolderBatch
    originalDataDir,    \* local of processCompleteWorkflow
    baseIds,     \* discovered ids, in processing order
    i,           \* loop index of processFolderBatch (0-based)
    audioFiles,  \* the paths processAudio computed for the current item
    wavResult,   \* what processAudio returned for the current item
    speechFiles, \* the paths processSpeech computed for the current item
    results,     \* results array of processFolderBatch
    successCount,
    failureCount,
    answeringMachineCount,
    batchResult, \* what processFolderBatch returned
    trace,       \* the calls of processAudio and of client.recognize, in order
    runs         \* the locals of the calls of processFolderBatch that share PATHS

libVars == <<call, ret>>
batchVars == <<files, disk, outputDir, dataDir, pc, originalOutputDir,
               originalDataDir, baseIds, i, audioFiles, wavResult, speechFiles,
               results, successCount, failureCount, answeringMachineCount,
               batchResult, trace, runs>>
fsVars == <<written, madeDirs>>
vars == <<libVars, batchVars, fsVars>>

(***************************************************************************)
(* Bounds                                                                  *)
(***************************************************************************)
MaxTextLen == 5      \* longest ledger text drawn as parser input
MaxEntries == 2      \* longest ledger drawn for rendering
MaxTimestamp == 11   \* largest timestamp of a rendered ledger
MaxSize == 2         \* largest chunk size of a rendered ledger
MaxSmallLen == 8     \* header lengths 0..MaxSmallLen are drawn besides the edge values
MaxPayloadLen == 3   \* longest payload drawn byte by byte
MaxIds == 3          \* ids whose artifacts may be in the batch folder
WideIds == 5         \* item pairs of the largest folder of well-formed pairs
MaxWordLen == 4      \* length of the transcripts spelled from the "beep" letters
MaxRows == 2         \* item results of an exported batch result
MaxResults == 3      \* results of a recognition response

(***************************************************************************)
(* Values                                                                  *)
(***************************************************************************)
\* a Number: NaN, or an integer
NaN == [isNaN |-> TRUE]
Num(n) == [isNaN |-> FALSE, n |-> n]

\* a normal return and a thrown Error (its message is a record of its parts)
Ok(v) == [threw |-> FALSE, value |-> v]
Threw(msg) == [threw |-> TRUE, message |-> msg]

(***************************************************************************)
(* String primitives of the JavaScript runtime                             *)
(***************************************************************************)
Digits == <<"0", "1", "2", "3", "4", "5", "6", "7", "8", "9">>
DigitSet == {Digits[k] : k \in 1..10}
DigitVal(c) == (CHOOSE k \in 1..10 : Digits[k] = c) - 1
IsWhiteSpace(c) == c \in {" ", "\n", "\t"}

RECURSIVE trimStart(_)
trimStart(s) ==
    IF s # <<>> /\ IsWhiteSpace(Head(s)) THEN trimStart(Tail(s)) ELSE s

RECURSIVE trimEnd(_)
trimEnd(s) ==
    IF s # <<>> /\ IsWhiteSpace(s[Len(s)])
    THEN trimEnd(SubSeq(s, 1, Len(s) - 1)) ELSE s

trim(s) == trimEnd(trimStart(s))

RECURSIVE SplitFrom(_, _, _, _)
SplitFrom(s, sep, k, cur) ==
    IF k > Len(s) THEN <<cur>>
    ELSE IF s[k] = sep THEN <<cur>> \o SplitFrom(s, sep, k + 1, <<>>)
    ELSE SplitFrom(s, sep, k + 1, Append(cur, s[k]))

\* String.prototype.split with a one-character separator
split(s, sep) == SplitFrom(s, sep, 1, <<>>)

RECURSIVE DigitPrefix(_)
DigitPrefix(s) ==
    IF s # <<>> /\ Head(s) \in DigitSet
    THEN <<Head(s)>> \o DigitPrefix(Tail(s)) ELSE <<>>

RECURSIVE DecimalValue(_)
DecimalValue(d) ==
    IF d = <<>> THEN 0
    ELSE 10 * DecimalValue(SubSeq(d, 1, Len(d) - 1)) + DigitVal(d[Len(d)])

\* parseInt(s, 10): leading white space, an optional sign, the longest run
\* of digits; whatever follows the digits is ignored
parseInt(s) ==
    LET t == trimStart(s)
        signed == t # <<>> /\ t[1] \in {"-", "+"}
        d == DigitPrefix(IF signed THEN Tail(t) ELSE t)
    IN IF d = <<>> THEN NaN
       ELSE IF signed /\ t[1] = "-" THEN Num(0 - DecimalValue(d))
       ELSE Num(DecimalValue(d))

(***************************************************************************)
(* AudioProcessor.parseTimingData                                          *)
(***************************************************************************)
\* the segments that survive .trim().split(',').filter(entry => entry.trim())
TimingSegments(timeSizeContent) ==
    SelectSeq(split(trim(timeSizeContent), ","), LAMBDA entry : trim(entry) # <<>>)

\* the callback of .map: one entry, or the Error it throws.  With fewer than
\* two fields the destructured size is undefined, which !size treats as "".
ParseEntry(entry, index) ==
    LET parts == split(entry, "/")
        timestamp == parts[1]
        size == IF Len(parts) >= 2 THEN parts[2] ELSE <<>>
        ts == parseInt(timestamp)
        sz == parseInt(size)
    IN IF timestamp = <<>> \/ size = <<>>
       THEN Threw([text |-> "Invalid timing entry at index", index |-> index,
                   entry |-> entry])
       ELSE IF ts.isNaN \/ sz.isNaN
       THEN Threw([text |-> "Invalid numbers in timing entry", entry |-> entry])
       ELSE Ok([timestamp |-> ts.n, size |-> sz.n, index |-> index])

\* a faulty variant of MapEntries: the index counts from 1
MapEntriesFromOne(segs) == [k \in 1..Len(segs) |-> ParseEntry(segs[k], k)]

\* .map(callback): the entries in order, or the Error of the first callback
\* that throws
MapEntries(segs) == [k \in 1..Len(segs) |-> ParseEntry(segs[k], k - 1)]
FirstThrown(mapped) ==
    LET bad == {k \in DOMAIN mapped : mapped[k].threw}
    IN IF bad # {} THEN mapped[CHOOSE k \in bad : \A j \in bad : k <= j]
       ELSE Ok([k \in DOMAIN mapped |-> mapped[k].value])

\* returns Ok(sequence of entries), or the Error of the first segment that throws
parseTimingData(timeSizeContent) ==
    FirstThrown(MapEntries(TimingSegments(timeSizeContent)))

(***************************************************************************)
(* AudioProcessor.getTimingStats                                           *)
(***************************************************************************)
Null == [isNull |-> TRUE]

SeqMin(q) == CHOOSE m \in {q[k] : k \in DOMAIN q} : \A k \in DOMAIN q : m <= q[k]
SeqMax(q) == CHOOSE m \in {q[k] : k \in DOMAIN q} : \A k \in DOMAIN q : m >= q[k]

RECURSIVE SeqSum(_)
SeqSum(q) == IF q = <<>> THEN 0 ELSE Head(q) + SeqSum(Tail(q))

\* a faulty variant of getTimingStats: the extremes are taken to be the
\* first and the last entry
getTimingStatsInOrder(timingEntries) ==
    IF Len(timingEntries) = 0 THEN Null
    ELSE [isNull |-> FALSE,
          entryCount |-> Len(timingEntries),
          minTimestamp |-> timingEntries[1].timestamp,
          maxTimestamp |-> timingEntries[Len(timingEntries)].timestamp,
          totalBytes |-> SeqSum([k \in DOMAIN timingEntries |-> timingEntries[k].size]),
          durationMs |-> timingEntries[Len(timingEntries)].timestamp
                         - timingEntries[1].timestamp]

getTimingStats(timingEntries) ==
    IF Len(timingEntries) = 0 THEN Null
    ELSE LET timestamps == [k \in DOMAIN timingEntries |-> timingEntries[k].timestamp]
             sizes == [k \in DOMAIN timingEntries |-> timingEntries[k].size]
         IN [isNull |-> FALSE,
             entryCount |-> Len(timingEntries),
             minTimestamp |-> SeqMin(timestamps),
             maxTimestamp |-> SeqMax(timestamps),
             totalBytes |-> SeqSum(sizes),
             durationMs |-> SeqMax(timestamps) - SeqMin(timestamps)]

(***************************************************************************)
(* Configuration (AudioConfig)                                             *)
(***************************************************************************)
SAMPLE_RATE == 8000
CHANNELS == 1
BITS_PER_SAMPLE == 16
BYTE_RATE == SAMPLE_RATE * CHANNELS * (BITS_PER_SAMPLE \div 8)
BLOCK_ALIGN == CHANNELS * (BITS_PER_SAMPLE \div 8)

WAV_HEADER_SIZE == 44
RIFF_ID == <<82, 73, 70, 70>>      \* "RIFF"
WAVE_ID == <<87, 65, 86, 69>>      \* "WAVE"
FMT_ID == <<102, 109, 116, 32>>    \* "fmt "
DATA_ID == <<100, 97, 116, 97>>    \* "data"
PCM_FORMAT == 1

MAX_FILE_SIZE == 50 * 1024 * 1024

(***************************************************************************)
(* WavHeaderGenerator                                                      *)
(* A length is a JavaScript Number holding an integer.  It is kept as two  *)
(* base-65536 limbs, n = hi * 65536 + lo with lo in 0..65535, so that the  *)
(* whole range of the 32-bit header fields, and what lies beyond it, is    *)
(* represented exactly.                                                    *)
(***************************************************************************)
Limb == 65536
Wide(n) == [hi |-> n \div Limb, lo |-> n % Limb]
WideAdd(w, k) == [hi |-> w.hi + ((w.lo + k) \div Limb), lo |-> (w.lo + k) % Limb]

\* Buffer.writeUInt32LE: a RangeError outside 0 .. 2^32 - 1
writeUInt32LE(w) ==
    IF w.hi < 0 \/ w.hi >= Limb
    THEN Threw([text |-> "ERR_OUT_OF_RANGE", value |-> w])
    ELSE Ok(<<w.lo % 256, w.lo \div 256, w.hi % 256, w.hi \div 256>>)

writeUInt16LE(v) == <<v % 256, v \div 256>>

\* the buffer after writing the chunks one after the other from offset on
RECURSIVE WriteChunks(_, _, _)
WriteChunks(buf, offset, chunks) ==
    IF chunks = <<>> THEN buf
    ELSE LET c == Head(chunks)
             next == [k \in DOMAIN buf |->
                        IF k - 1 >= offset /\ k - 1 < offset + Len(c)
                        THEN c[k - offset] ELSE buf[k]]
         IN WriteChunks(next, offset + Len(c), Tail(chunks))

\* a faulty variant of generateHeader: the RIFF size field holds the size of
\* the whole file, audioDataLength + 44
generateHeaderFileSize(audioDataLength) ==
    LET totalSize == WideAdd(audioDataLength, 44)
        header == [k \in 1..WAV_HEADER_SIZE |-> 0]
    IN IF audioDataLength.hi < 0
       THEN Threw([text |-> "Invalid audio data length", value |-> audioDataLength])
       ELSE IF writeUInt32LE(totalSize).threw THEN writeUInt32LE(totalSize)
       ELSE IF writeUInt32LE(audioDataLength).threw THEN writeUInt32LE(audioDataLength)
       ELSE Ok(WriteChunks(header, 0,
                <<RIFF_ID, writeUInt32LE(totalSize).value, WAVE_ID,
                  FMT_ID, writeUInt32LE(Wide(16)).value, writeUInt16LE(PCM_FORMAT),
                  writeUInt16LE(CHANNELS), writeUInt32LE(Wide(SAMPLE_RATE)).value,
                  writeUInt32LE(Wide(BYTE_RATE)).value, writeUInt16LE(BLOCK_ALIGN),
                  writeUInt16LE(BITS_PER_SAMPLE),
                  DATA_ID, writeUInt32LE(audioDataLength).value>>))

generateHeader(audioDataLength) ==
    LET totalSize == WideAdd(audioDataLength, 36)
        header == [k \in 1..WAV_HEADER_SIZE |-> 0]
    IN IF audioDataLength.hi < 0
       THEN Threw([text |-> "Invalid audio data length", value |-> audioDataLength])
       ELSE IF writeUInt32LE(totalSize).threw THEN writeUInt32LE(totalSize)
       ELSE IF writeUInt32LE(audioDataLength).threw THEN writeUInt32LE(audioDataLength)
       ELSE Ok(WriteChunks(header, 0,
                <<RIFF_ID, writeUInt32LE(totalSize).value, WAVE_ID,
                  FMT_ID, writeUInt32LE(Wide(16)).value, writeUInt16LE(PCM_FORMAT),
                  writeUInt16LE(CHANNELS), writeUInt32LE(Wide(SAMPLE_RATE)).value,
                  writeUInt32LE(Wide(BYTE_RATE)).value, writeUInt16LE(BLOCK_ALIGN),
                  writeUInt16LE(BITS_PER_SAMPLE),
                  DATA_ID, writeUInt32LE(audioDataLength).value>>))

getHeaderInfo(audioDataLength) ==
    [sampleRate |-> SAMPLE_RATE, channels |-> CHANNELS,
     bitsPerSample |-> BITS_PER_SAMPLE, audioDataLength |-> audioDataLength,
     byteRate |-> BYTE_RATE, blockAlign |-> BLOCK_ALIGN,
     headerSize |-> WAV_HEADER_SIZE,
     totalSize |-> audioDataLength + WAV_HEADER_SIZE]

(***************************************************************************)
(* Files and paths.  A path is a directory (a sequence of segments) and a  *)
(* file name (a string); a file is absent, or has a size and its content.  *)
(***************************************************************************)
DATA_SUFFIX == <<"_", "d", "a", "t", "a">>
TIMESIZE_SUFFIX == <<"_", "t", "i", "m", "e", "S", "i", "z", "e">>
WAV_EXT == <<".", "w", "a", "v">>
TXT_EXT == <<".", "t", "x", "t">>

\* the initial PATHS configuration
PATHS_DATA_DIR == <<".", "data">>
PATHS_OUTPUT_DIR == <<".", "output">>

Path(dir, name) == [dir |-> dir, name |-> name]
dirname(path) == path.dir

Absent == [exists |-> FALSE]
FileOf(content) == [exists |-> TRUE, size |-> Len(content), data |-> content]
\* a file known by its size only: its content is never read
Oversized == [exists |-> TRUE, size |-> MAX_FILE_SIZE + 1, data |-> <<>>]

(***************************************************************************)
(* AudioProcessor.readAudioData / createWavFile / processAudio             *)
(***************************************************************************)
\* a faulty variant of readAudioData: a file of exactly the maximum size
\* is refused
readAudioDataBelowMax(file, filePath) ==
    IF ~file.exists
    THEN Threw([text |-> "Audio file not found", path |-> filePath])
    ELSE IF file.size = 0
    THEN Threw([text |-> "Audio file is empty", path |-> filePath])
    ELSE IF file.size >= MAX_FILE_SIZE
    THEN Threw([text |-> "File too large", size |-> file.size,
                max |-> MAX_FILE_SIZE])
    ELSE Ok(file.data)

readAudioData(file, filePath) ==
    IF ~file.exists
    THEN Threw([text |-> "Audio file not found", path |-> filePath])
    ELSE IF file.size = 0
    THEN Threw([text |-> "Audio file is empty", path |-> filePath])
    ELSE IF file.size > MAX_FILE_SIZE
    THEN Threw([text |-> "File too large", size |-> file.size,
                max |-> MAX_FILE_SIZE])
    ELSE Ok(file.data)

\* writeOk: whether ensureDirectory and fs.writeFile succeed.
\* Returns what the call returns or throws, and the file it wrote, if any.
WriteWavFile(header, audioData, outputPath, writeOk) ==
    IF header.threw
    THEN [out |-> header, wrote |-> FALSE, data |-> <<>>]
    ELSE IF ~writeOk
    THEN [out |-> Threw([text |-> "EIO", path |-> outputPath]),
          wrote |-> FALSE, data |-> <<>>]
    ELSE [out |-> Ok([filePath |-> outputPath,
                      totalSize |-> Len(header.value \o audioData),
                      audioDataSize |-> Len(audioData),
                      headerSize |-> Len(header.value),
                      headerInfo |-> getHeaderInfo(Len(audioData))]),
          wrote |-> TRUE, data |-> header.value \o audioData]

createWavFile(audioData, outputPath, writeOk) ==
    WriteWavFile(generateHeader(Wide(Len(audioData))), audioData, outputPath, writeOk)

\* The try block of processAudio, step by step: the first failing step
\* decides the error, and nothing is written unless every step succeeds.
NothingWritten(error) == [out |-> error, wrote |-> FALSE, data |-> <<>>]

\* step 4 has run: the result object
ProcessAudioWritten(baseId, files3, timingStats, audioData, wav) ==
    IF wav.out.threw THEN wav
    ELSE [out |-> Ok([baseId |-> baseId, success |-> TRUE, files |-> files3,
                      timing |-> timingStats,
                      audio |-> [length |-> Len(audioData)],
                      wav |-> wav.out.value]),
          wrote |-> TRUE, data |-> wav.data]

\* a faulty variant of ProcessAudioRead: a ledger total that differs from the
\* payload length is an error
ProcessAudioReadStrict(baseId, files3, timingStats, audioData, writeOk) ==
    IF audioData.threw THEN NothingWritten(audioData)
    ELSE IF timingStats.totalBytes # Len(audioData.value)
    THEN NothingWritten(Threw([text |-> "Size mismatch",
                               expected |-> timingStats.totalBytes,
                               actual |-> Len(audioData.value)]))
    ELSE ProcessAudioWritten(baseId, files3, timingStats, audioData.value,
                             createWavFile(audioData.value, files3.wavFile, writeOk))

\* step 2 has run: a ledger total that differs from the payload length is
\* logged as a warning and changes nothing; step 4 writes the container
ProcessAudioRead(baseId, files3, timingStats, audioData, writeOk) ==
    IF audioData.threw THEN NothingWritten(audioData)
    ELSE ProcessAudioWritten(baseId, files3, timingStats, audioData.value,
                             createWavFile(audioData.value, files3.wavFile, writeOk))

\* the statistics are logged: reading a property of null throws
ProcessAudioMeasured(baseId, files3, timingStats, payload, writeOk) ==
    IF timingStats.isNull
    THEN NothingWritten(Threw([text |-> "Cannot read properties of null",
                               property |-> "entryCount"]))
    ELSE ProcessAudioRead(baseId, files3, timingStats,
                          readAudioData(payload, files3.dataFile), writeOk)

ProcessAudioParsed(baseId, files3, timingEntries, payload, writeOk) ==
    IF timingEntries.threw THEN NothingWritten(timingEntries)
    ELSE ProcessAudioMeasured(baseId, files3, getTimingStats(timingEntries.value),
                              payload, writeOk)

ProcessAudioTry(baseId, files3, timeSize, payload, writeOk) ==
    IF ~timeSize.exists
    THEN NothingWritten(Threw([text |-> "ENOENT", path |-> files3.timeSizeFile]))
    ELSE ProcessAudioParsed(baseId, files3, parseTimingData(timeSize.data),
                            payload, writeOk)

\* the file paths processAudio computes when it is called, from the values
\* PATHS.DATA_DIR and PATHS.OUTPUT_DIR have at that moment
AudioPaths(baseId, DATA_DIR, OUTPUT_DIR) ==
    [dataFile |-> Path(DATA_DIR, baseId \o DATA_SUFFIX),
     timeSizeFile |-> Path(DATA_DIR, baseId \o TIMESIZE_SUFFIX),
     wavFile |-> Path(OUTPUT_DIR, baseId \o WAV_EXT)]

\* whether processAudio gets as far as reading the payload
ParsedNonEmpty(timingEntries) ==
    ~timingEntries.threw /\ ~getTimingStats(timingEntries.value).isNull
ReadsPayload(timeSize) ==
    timeSize.exists /\ ParsedNonEmpty(parseTimingData(timeSize.data))

\* the catch block of processAudio wraps the error of the try block
ProcessAudioCatch(baseId, files3, r) ==
    IF r.out.threw
    THEN [out |-> Threw([text |-> "Audio processing failed for",
                         baseId |-> baseId, cause |-> r.out.message]),
          wrote |-> FALSE, data |-> <<>>, path |-> files3.wavFile]
    ELSE r @@ [path |-> files3.wavFile]

processAudio(baseId, files3, timeSize, payload, writeOk) ==
    ProcessAudioCatch(baseId, files3,
                      ProcessAudioTry(baseId, files3, timeSize, payload, writeOk))

(***************************************************************************)
(* Calls of the library functions on drawn inputs                          *)
(***************************************************************************)
NoCall == [op |-> "none"]
NotReturned == [done |-> FALSE]
Returned(v) == [done |-> TRUE, out |-> v]

RECURSIVE SeqsUpTo(_, _)
SeqsUpTo(S, n) ==
    IF n = 0 THEN {<<>>}
    ELSE LET shorter == SeqsUpTo(S, n - 1)
         IN shorter \cup {Append(q, c) : q \in {t \in shorter : Len(t) = n - 1}, c \in S}

\* --- parseTimingData ---------------------------------------------------
LedgerAlphabet == {"1", ",", "/", " ", "-", "x"}
LedgerTexts == SeqsUpTo(LedgerAlphabet, MaxTextLen)

RECURSIVE toString(_)
toString(n) ==
    IF n < 10 THEN <<Digits[n + 1]>>
    ELSE toString(n \div 10) \o <<Digits[(n % 10) + 1]>>

\* the ledger text format: 'timestampMs/sizeBytes' entries joined by ','
RECURSIVE Render(_)
Render(ledger) ==
    IF ledger = <<>> THEN <<>>
    ELSE LET e == ledger[Len(ledger)]
             last == toString(e.timestamp) \o <<"/">> \o toString(e.size)
         IN IF Len(ledger) = 1 THEN last
            ELSE Render(SubSeq(ledger, 1, Len(ledger) - 1)) \o <<",">> \o last

\* valid ledgers: non-empty, sizes positive, sequenceIndex = position
ValidLedgers ==
    LET Pairs == (0..MaxTimestamp) \X (1..MaxSize)
        Raw == SeqsUpTo(Pairs, MaxEntries) \ {<<>>}
    IN {[k \in DOMAIN q |-> [timestamp |-> q[k][1], size |-> q[k][2], index |-> k - 1]]
          : q \in Raw}

\* no batch is running
NoBatch ==
    /\ files = {}
    /\ disk = <<>>
    /\ written = <<>>
    /\ madeDirs = {}
    /\ outputDir = PATHS_OUTPUT_DIR
    /\ dataDir = PATHS_DATA_DIR
    /\ pc = "idle"
    /\ originalOutputDir = <<>>
    /\ originalDataDir = <<>>
    /\ baseIds = <<>>
    /\ i = 0
    /\ audioFiles = NotReturned
    /\ wavResult = NotReturned
    /\ speechFiles = NotReturned
    /\ results = <<>>
    /\ successCount = 0
    /\ failureCount = 0
    /\ answeringMachineCount = 0
    /\ batchResult = NotReturned
    /\ trace = <<>>
    /\ runs = <<>>

InitLib(calls) == call \in calls /\ ret = NotReturned /\ NoBatch

ParseCalls ==
    {[op |-> "parseTimingData", text |-> t, ledger |-> <<>>] : t \in LedgerTexts}
    \cup {[op |-> "parseTimingData", text |-> Render(l), ledger |-> l] : l \in ValidLedgers}

CallParse ==
    /\ call.op = "parseTimingData"
    /\ ~ret.done
    /\ ret' = Returned(parseTimingData(call.text))
    /\ UNCHANGED <<call, batchVars, fsVars>>

InitParse == InitLib(ParseCalls)
SpecParse == InitParse /\ [][CallParse]_vars

\* --- generateHeader ----------------------------------------------------
HeaderLengths ==
    {[hi |-> h, lo |-> l] :
        h \in {0, 1, 255, 256, Limb - 1, Limb},
        l \in (0..MaxSmallLen) \cup {255, 256, 800, Limb - 37, Limb - 36, Limb - 1}}

HeaderCalls == {[op |-> "generateHeader", audioDataLength |-> n] : n \in HeaderLengths}

CallGenerateHeader ==
    /\ call.op = "generateHeader"
    /\ ~ret.done
    /\ ret' = Returned(generateHeader(call.audioDataLength))
    /\ UNCHANGED <<call, batchVars, fsVars>>

InitHeader == InitLib(HeaderCalls)
SpecHeader == InitHeader /\ [][CallGenerateHeader]_vars

\* --- processAudio ------------------------------------------------------
ExampleLedger ==
    <<"0", "/", "3", "2", "0", ",", "4", "0", "/", "3", "2", "0", ",",
      "8", "0", "/", "1", "6", "0">>
ShortLedger == <<"0", "/", "3", "2", "0", ",", "4", "0", "/", "3", "2", "0">>

AudioLedgerTexts ==
    {<<>>, <<"1", "/", "1">>, <<"1", "/", "3">>, <<"1", "/", "1", ",", "5", "/", "2">>,
     <<"x">>, <<"1", "/", "1", "/", "1">>, ExampleLedger, ShortLedger}

PayloadBytes(n, seed) == [k \in 1..n |-> (seed + k) % 256]

AudioPayloadFiles ==
    {Absent, Oversized, FileOf(PayloadBytes(800, 0))}
    \cup {FileOf(PayloadBytes(n, seed)) : n \in 0..MaxPayloadLen, seed \in {0, 200}}

AudioCalls ==
    {[op |-> "processAudio", baseId |-> <<"7">>, timeSize |-> t, payload |-> f,
      writeOk |-> w] :
        t \in {Absent} \cup {FileOf(x) : x \in AudioLedgerTexts},
        f \in AudioPayloadFiles, w \in BOOLEAN}

CallProcessAudio ==
    /\ call.op = "processAudio"
    /\ ~ret.done
    /\ \E r \in {processAudio(call.baseId,
                             AudioPaths(call.baseId, PATHS_DATA_DIR, PATHS_OUTPUT_DIR),
                             call.timeSize, call.payload, call.writeOk)} :
          /\ ret' = Returned(r.out)
          /\ written' = IF r.wrote THEN (r.path :> r.data) @@ written ELSE written
          /\ madeDirs' = IF r.wrote THEN madeDirs \cup {dirname(r.path)} ELSE madeDirs
    /\ UNCHANGED <<call, batchVars>>

InitAudio == InitLib(AudioCalls)
SpecAudio == InitAudio /\ [][CallProcessAudio]_vars

(***************************************************************************)
(* More string primitives: endsWith, replace, includes, sort, toLowerCase  *)
(***************************************************************************)
endsWith(s, suffix) ==
    Len(s) >= Len(suffix) /\ SubSeq(s, Len(s) - Len(suffix) + 1, Len(s)) = suffix

Occurrences(s, pattern) ==
    {k \in 1..(Len(s) - Len(pattern) + 1) : SubSeq(s, k, k + Len(pattern) - 1) = pattern}

includes(s, pattern) == Occurrences(s, pattern) # {}

\* String.prototype.replace with a string pattern: the first occurrence only
replace(s, pattern, replacement) ==
    IF Occurrences(s, pattern) = {} THEN s
    ELSE LET k == CHOOSE m \in Occurrences(s, pattern) :
                      \A n \in Occurrences(s, pattern) : m <= n
         IN SubSeq(s, 1, k - 1) \o replacement \o SubSeq(s, k + Len(pattern), Len(s))

\* the characters of the model in the order of their UTF-16 code units
CodeOrder ==
    <<" ", "\"", ",", "-", ".", "/", "0", "1", "2", "3", "4", "5", "6", "7", "8", "9",
      "A", "B", "C", "D", "E", "F", "G", "H", "I", "J", "K", "L", "M", "N",
      "O", "P", "Q", "R", "S", "T", "U", "V", "W", "X", "Y", "Z", "_", "a",
      "b", "c", "d", "e", "f", "g", "h", "i", "j", "k", "l", "m", "n", "o",
      "p", "q", "r", "s", "t", "u", "v", "w", "x", "y", "z">>
CodeUnit(c) == CHOOSE k \in DOMAIN CodeOrder : CodeOrder[k] = c

\* a < b in the order of Array.prototype.sort without a comparator
RECURSIVE StringLess(_, _)
StringLess(a, b) ==
    IF b = <<>> THEN FALSE
    ELSE IF a = <<>> THEN TRUE
    ELSE IF Head(a) = Head(b) THEN StringLess(Tail(a), Tail(b))
    ELSE CodeUnit(Head(a)) < CodeUnit(Head(b))

RECURSIVE sort(_)
sort(q) ==
    IF q = <<>> THEN <<>>
    ELSE LET k == CHOOSE m \in DOMAIN q : \A n \in DOMAIN q : ~StringLess(q[n], q[m])
         IN <<q[k]>> \o sort(SubSeq(q, 1, k - 1) \o SubSeq(q, k + 1, Len(q)))

UpperCase ==
    <<"A", "B", "C", "D", "E", "F", "G", "H", "I", "J", "K", "L", "M", "N",
      "O", "P", "Q", "R", "S", "T", "U", "V", "W", "X", "Y", "Z">>
LowerCase ==
    <<"a", "b", "c", "d", "e", "f", "g", "h", "i", "j", "k", "l", "m", "n",
      "o", "p", "q", "r", "s", "t", "u", "v", "w", "x", "y", "z">>
toLowerCase(s) ==
    [k \in DOMAIN s |->
        IF \E u \in DOMAIN UpperCase : UpperCase[u] = s[k]
        THEN LowerCase[CHOOSE u \in DOMAIN UpperCase : UpperCase[u] = s[k]]
        ELSE s[k]]

\* path.join of a directory and one more segment: '.' segments are dropped
join(dir, segment) == SelectSeq(dir \o <<segment>>, LAMBDA x : x # ".")
basename(path) == path[Len(path)]

(***************************************************************************)
(* BatchProcessor.discoverAudioFiles                                       *)
(***************************************************************************)
\* listing: what fs.readdir returned, in the order it returned it;
\* present: the names for which fs.access succeeds
RECURSIVE DiscoverLoop(_, _, _)
DiscoverLoop(listing, present, found) ==
    IF listing = <<>> THEN found
    ELSE LET file == Head(listing)
             baseId == replace(file, DATA_SUFFIX, <<>>)
             timeSizeFile == baseId \o TIMESIZE_SUFFIX
             added == IF \E k \in DOMAIN found : found[k] = baseId
                      THEN found ELSE Append(found, baseId)
         IN IF endsWith(file, DATA_SUFFIX) /\ timeSizeFile \in present
            THEN DiscoverLoop(Tail(listing), present, added)
            ELSE DiscoverLoop(Tail(listing), present, found)

\* a faulty variant of discoverAudioFiles: the ids stay in readdir order
discoverUnsorted(folderPath, readable, listing, present) ==
    IF ~readable
    THEN Threw([text |-> "Failed to discover audio files in", folderPath |-> folderPath,
                cause |-> [text |-> "ENOENT"]])
    ELSE Ok(DiscoverLoop(listing, present, <<>>))

discoverAudioFiles(folderPath, readable, listing, present) ==
    IF ~readable
    THEN Threw([text |-> "Failed to discover audio files in", folderPath |-> folderPath,
                cause |-> [text |-> "ENOENT"]])
    ELSE Ok(sort(DiscoverLoop(listing, present, <<>>)))

(***************************************************************************)
(* SpeechProcessor                                                         *)
(* A confidence is a number of thousandths; a quotient of two integers is  *)
(* kept as a fraction in lowest terms.                                     *)
(***************************************************************************)
RECURSIVE GCD(_, _)
GCD(a, b) == IF b = 0 THEN a ELSE GCD(b, a % b)
Ratio(a, b) == IF a = 0 THEN [num |-> 0, den |-> 1]
               ELSE [num |-> a \div GCD(a, b), den |-> b \div GCD(a, b)]

\* the entry pushed for one result of the response: its first alternative
FirstAlternative(result) ==
    [transcript |-> result.alternatives[1].transcript,
     confidence |-> result.alternatives[1].confidence,
     words |-> result.alternatives[1].words]

RECURSIVE CollectTranscripts(_)
CollectTranscripts(res) ==
    IF res = <<>> THEN <<>>
    ELSE IF Len(Head(res).alternatives) > 0
    THEN <<FirstAlternative(Head(res))>> \o CollectTranscripts(Tail(res))
    ELSE CollectTranscripts(Tail(res))

\* the running best: replaced only by a strictly greater confidence
RECURSIVE TrackBest(_, _)
TrackBest(transcripts, best) ==
    IF transcripts = <<>> THEN best
    ELSE IF Head(transcripts).confidence > best.confidence
    THEN TrackBest(Tail(transcripts), [transcript |-> Head(transcripts).transcript,
                                       confidence |-> Head(transcripts).confidence])
    ELSE TrackBest(Tail(transcripts), best)

RECURSIVE JoinTrimmed(_)
JoinTrimmed(ts) ==
    IF ts = <<>> THEN <<>> ELSE trim(Head(ts).transcript) \o JoinTrimmed(Tail(ts))

processRecognitionResults(response) ==
    LET transcripts == CollectTranscripts(response.results)
        best == TrackBest(transcripts, [transcript |-> <<>>, confidence |-> 0])
        validTranscripts == SelectSeq(transcripts, LAMBDA t : t.confidence > 0)
        confidences(ts) == [k \in DOMAIN ts |-> ts[k].confidence]
        words == [k \in DOMAIN transcripts |-> transcripts[k].words]
    IN [transcripts |-> transcripts,
        bestTranscript |-> trim(best.transcript),
        bestConfidence |-> best.confidence,
        transcribeText |-> trim(JoinTrimmed(validTranscripts)),
        transcribeConfidence |->
            IF Len(validTranscripts) > 0
            THEN Ratio(SeqSum(confidences(validTranscripts)), Len(validTranscripts))
            ELSE Ratio(0, 1),
        totalWords |-> SeqSum(words),
        isEmpty |-> Len(transcripts) = 0,
        averageConfidence |->
            IF Len(transcripts) > 0
            THEN Ratio(SeqSum(confidences(transcripts)), Len(transcripts))
            ELSE Ratio(0, 1)]

\* gateway: what client.recognize does, [error |-> TRUE] or a response
transcribeAudio(wavFilePath, wavFile, gateway) ==
    IF ~wavFile.exists
    THEN Threw([text |-> "Speech transcription failed",
                cause |-> [text |-> "ENOENT", path |-> wavFilePath]])
    ELSE IF gateway.error
    THEN Threw([text |-> "Speech transcription failed",
                cause |-> [text |-> "ProviderError"]])
    ELSE Ok([success |-> TRUE, filePath |-> wavFilePath]
            @@ processRecognitionResults(gateway.response))

\* the text file holds the formatted transcription result
formatTranscriptionOutput(result) == [format |-> "transcription", of |-> result]

saveTranscription(transcriptionResult, outputPath, saveOk) ==
    IF ~saveOk
    THEN [out |-> Threw([text |-> "Failed to save transcription",
                         cause |-> [text |-> "EIO", path |-> outputPath]]),
          wrote |-> FALSE, data |-> <<>>]
    ELSE [out |-> Ok([success |-> TRUE, filePath |-> outputPath]),
          wrote |-> TRUE, data |-> formatTranscriptionOutput(transcriptionResult)]

\* the file paths processSpeech computes when it is called
SpeechPaths(baseId, OUTPUT_DIR) ==
    [wavFile |-> Path(OUTPUT_DIR, baseId \o WAV_EXT),
     txtFile |-> Path(OUTPUT_DIR, baseId \o TXT_EXT)]

\* The try block of processSpeech, step by step.
ProcessSpeechSaved(baseId, files2, transcription, saveResult) ==
    IF saveResult.out.threw THEN NothingWritten(saveResult.out)
    ELSE [out |-> Ok([baseId |-> baseId, success |-> TRUE, files |-> files2,
                      transcription |-> transcription,
                      save |-> saveResult.out.value]),
          wrote |-> TRUE, data |-> saveResult.data]

ProcessSpeechTranscribed(baseId, files2, transcriptionResult, saveOk) ==
    IF transcriptionResult.threw THEN NothingWritten(transcriptionResult)
    ELSE ProcessSpeechSaved(baseId, files2, transcriptionResult.value,
            saveTranscription(transcriptionResult.value, files2.txtFile, saveOk))

ProcessSpeechTry(baseId, files2, wavFile, gateway, saveOk) ==
    IF ~wavFile.exists
    THEN NothingWritten(Threw([text |-> "ENOENT", path |-> files2.wavFile]))
    ELSE ProcessSpeechTranscribed(baseId, files2,
            transcribeAudio(files2.wavFile, wavFile, gateway), saveOk)

\* a faulty variant of ProcessSpeechCatch: the error is thrown on as it is
ProcessSpeechRethrow(baseId, files2, r) ==
    IF r.out.threw
    THEN [out |-> r.out, wrote |-> FALSE, data |-> <<>>, path |-> files2.txtFile]
    ELSE r @@ [path |-> files2.txtFile]

\* the catch block of processSpeech wraps the error of the try block
ProcessSpeechCatch(baseId, files2, r) ==
    IF r.out.threw
    THEN [out |-> Threw([text |-> "Speech processing failed for",
                         baseId |-> baseId, cause |-> r.out.message]),
          wrote |-> FALSE, data |-> <<>>, path |-> files2.txtFile]
    ELSE r @@ [path |-> files2.txtFile]

\* output: the output files that exist (path -> content)
processSpeech(baseId, files2, output, gateway, saveOk) ==
    ProcessSpeechCatch(baseId, files2,
        ProcessSpeechTry(baseId, files2,
                         IF files2.wavFile \in DOMAIN output
                         THEN FileOf(output[files2.wavFile]) ELSE Absent,
                         gateway, saveOk))

(***************************************************************************)
(* BatchProcessor.detectAnsweringMachine                                   *)
(***************************************************************************)
\* The Japanese patterns, one string per character, named by code point.

japanesePatterns ==
    {<<"u7559", "u5b88", "u756a", "u96fb", "u8a71">>,
     <<"u7559", "u5b88", "u96fb">>,
     <<"u308b", "u3059", "u3067", "u3093">>,
     <<"u4e0d", "u5728">>,
     <<"u305f", "u3060", "u3044", "u307e">>,
     <<"u5916", "u51fa", "u4e2d">>,
     <<"u96fb", "u8a71", "u306b", "u51fa", "u308b", "u3053", "u3068",
       "u304c", "u3067", "u304d", "u307e", "u305b", "u3093">>,
     <<"u30e1", "u30c3", "u30bb", "u30fc", "u30b8">>,
     <<"u304a", "u8a71", "u3057", "u304f", "u3060", "u3055", "u3044">>,
     <<"u304a", "u540d", "u524d">>,
     <<"u3054", "u7528", "u4ef6">>,
     <<"u3057", "u3070", "u3089", "u304f", "u304a", "u5f85", "u3061",
       "u304f", "u3060", "u3055", "u3044">>,
     <<"u5f8c", "u307b", "u3069">>,
     <<"u304b", "u3051", "u76f4", "u3057">>}

englishPatterns ==
    {<<"v", "o", "i", "c", "e", "m", "a", "i", "l">>,
     <<"a", "n", "s", "w", "e", "r", "i", "n", "g", " ", "m", "a", "c",
       "h", "i", "n", "e">>,
     <<"l", "e", "a", "v", "e", " ", "a", " ", "m", "e", "s", "s", "a",
       "g", "e">>,
     <<"n", "o", "t", " ", "a", "v", "a", "i", "l", "a", "b", "l", "e">>,
     <<"a", "w", "a", "y", " ", "f", "r", "o", "m">>,
     <<"p", "l", "e", "a", "s", "e", " ", "l", "e", "a", "v", "e">>,
     <<"a", "f", "t", "e", "r", " ", "t", "h", "e", " ", "t", "o", "n",
       "e">>,
     <<"b", "e", "e", "p">>,
     <<"r", "e", "c", "o", "r", "d", "i", "n", "g">>,
     <<"c", "u", "r", "r", "e", "n", "t", "l", "y", " ", "u", "n", "a",
       "v", "a", "i", "l", "a", "b", "l", "e">>,
     <<"p", "l", "e", "a", "s", "e", " ", "c", "a", "l", "l", " ", "b",
       "a", "c", "k">>}

\* A JavaScript value: null, a number, or a string with its characters.
JsNull == [type |-> "null"]
JsNumber(n) == [type |-> "number", n |-> n]
Str(s) == [type |-> "string", chars |-> s]
\* !v for such a value
Falsy(v) ==
    IF v.type = "null" THEN TRUE
    ELSE IF v.type = "number" THEN v.n = 0
    ELSE v.chars = <<>>

\* a faulty variant of detectAnsweringMachine: the transcript is matched as
\* it is spelled
detectCaseSensitive(transcript) ==
    IF Falsy(transcript) \/ transcript.type # "string" THEN FALSE
    ELSE \E pattern \in japanesePatterns \cup englishPatterns :
            includes(transcript.chars, pattern)

detectAnsweringMachine(transcript) ==
    IF Falsy(transcript) \/ transcript.type # "string" THEN FALSE
    ELSE \E pattern \in japanesePatterns \cup englishPatterns :
            includes(toLowerCase(transcript.chars), pattern)

\* detectAnsweringMachine of scripts/speechToText.js: the same test over a
\* shorter list of patterns
scriptJapanesePatterns ==
    japanesePatterns \
        {<<"u3057", "u3070", "u3089", "u304f", "u304a", "u5f85", "u3061",
           "u304f", "u3060", "u3055", "u3044">>,
         <<"u5f8c", "u307b", "u3069">>,
         <<"u304b", "u3051", "u76f4", "u3057">>}
scriptEnglishPatterns ==
    englishPatterns \
        {<<"c", "u", "r", "r", "e", "n", "t", "l", "y", " ", "u", "n", "a",
           "v", "a", "i", "l", "a", "b", "l", "e">>,
         <<"p", "l", "e", "a", "s", "e", " ", "c", "a", "l", "l", " ", "b",
           "a", "c", "k">>}
scriptDetectAnsweringMachine(transcript) ==
    IF Falsy(transcript) \/ transcript.type # "string" THEN FALSE
    ELSE \E pattern \in scriptJapanesePatterns \cup scriptEnglishPatterns :
            includes(toLowerCase(transcript.chars), pattern)

(***************************************************************************)
(* Calls of the pure functions on drawn inputs, one after the other        *)
(***************************************************************************)
\* --- getTimingStats ----------------------------------------------------
StatsCalls ==
    {[op |-> "getTimingStats", timingEntries |-> l] :
        l \in ValidLedgers \cup {<<>>, parseTimingData(ExampleLedger).value}}

CallGetTimingStats ==
    /\ call.op = "getTimingStats"
    /\ ~ret.done
    /\ ret' = Returned(getTimingStats(call.timingEntries))
    /\ UNCHANGED <<call, batchVars, fsVars>>

\* --- detectAnsweringMachine --------------------------------------------
Voicemail == <<"V", "o", "i", "c", "e", "m", "a", "i", "l">>
Hello == <<"h", "e", "l", "l", "o">>
BeepLetters == {"b", "e", "p", "B", "E", "P"}
Phrases ==
    {Voicemail, toLowerCase(Voicemail), Hello, <<>>,
     <<"V", "O", "I", "C", "E", "M", "A", "I", "L">>,
     <<"P", "l", "e", "a", "s", "e", " ", "C", "a", "l", "l", " ", "B",
       "a", "c", "k">>,
     <<"x", "u4e0d", "u5728", "y">>, <<"u5f8c", "u307b", "u3069">>,
     <<"u4e0d", "x", "u5728">>}
DetectCallsOn(transcripts) ==
    {[op |-> "detectAnsweringMachine", transcript |-> v, of |-> impl] :
        v \in {JsNull, JsNumber(0), JsNumber(7)} \cup {Str(t) : t \in transcripts},
        impl \in {"BatchProcessor", "speechToText"}}
DetectCalls == DetectCallsOn(Phrases \cup SeqsUpTo(BeepLetters, MaxWordLen))

CallDetectAnsweringMachine ==
    /\ call.op = "detectAnsweringMachine"
    /\ ~ret.done
    /\ ret' = Returned(IF call.of = "BatchProcessor"
                       THEN detectAnsweringMachine(call.transcript)
                       ELSE scriptDetectAnsweringMachine(call.transcript))
    /\ UNCHANGED <<call, batchVars, fsVars>>

\* the caller goes on to classify one of the phrases
\* --- readAudioData -------------------------------------------------------
\* a large file, known by its size: its bytes are kept as their number
Bulk(size) == [exists |-> TRUE, size |-> size, data |-> [length |-> size]]
ReadCalls ==
    {[op |-> "readAudioData", file |-> f, filePath |-> Path(PATHS_DATA_DIR, <<"7">> \o DATA_SUFFIX)] :
        f \in {Absent, Bulk(MAX_FILE_SIZE - 1), Bulk(MAX_FILE_SIZE), Bulk(MAX_FILE_SIZE + 1),
               Bulk(2 * MAX_FILE_SIZE)}
              \cup {FileOf(PayloadBytes(n, seed)) : n \in 0..MaxPayloadLen, seed \in {0, 200}}}

CallReadAudioData ==
    /\ call.op = "readAudioData"
    /\ ~ret.done
    /\ ret' = Returned(readAudioData(call.file, call.filePath))
    /\ UNCHANGED <<call, batchVars, fsVars>>

\* --- processRecognitionResults -------------------------------------------
Heard ==
    {[alternatives |-> <<>>]}
    \cup {[alternatives |-> <<[transcript |-> t, confidence |-> c, words |-> 1]>>] :
            t \in {Hello, Voicemail, <<" ", "h", "i">>}, c \in {0, 800, 900}}
RecognitionCalls ==
    {[op |-> "processRecognitionResults", response |-> [results |-> rs]] :
        rs \in SeqsUpTo(Heard, MaxResults)}

CallProcessRecognitionResults ==
    /\ call.op = "processRecognitionResults"
    /\ ~ret.done
    /\ ret' = Returned(processRecognitionResults(call.response))
    /\ UNCHANGED <<call, batchVars, fsVars>>

LibCalls == StatsCalls \cup DetectCalls \cup ReadCalls \cup RecognitionCalls
CallAgain ==
    /\ ret.done
    /\ call' \in DetectCallsOn(Phrases)
    /\ ret' = NotReturned
    /\ UNCHANGED <<batchVars, fsVars>>

InitCalls == InitLib(LibCalls)
NextCalls ==
    \/ CallGetTimingStats
    \/ CallDetectAnsweringMachine
    \/ CallReadAudioData
    \/ CallProcessRecognitionResults
    \/ CallAgain
SpecCalls == InitCalls /\ [][NextCalls]_vars


(***************************************************************************)
(* BatchProcessor: the batch folder and its environment                    *)
(***************************************************************************)
FOLDER_PATH == <<"data", "20250702">>
folderName == basename(FOLDER_PATH)

\* ids whose artifacts may lie in the folder; two of them contain '_data'
IdPool ==
    <<<<"x">> \o DATA_SUFFIX, DATA_SUFFIX \o <<"x">>, <<"y">>, <<"x">>, <<"y", "x">>>>
PoolIds == {IdPool[k] : k \in 1..MaxIds}

\* every folder holding, for each pool id, any of its two artifacts
Folders ==
    {UNION {{id \o suffix : suffix \in has[id]} : id \in PoolIds} :
        has \in [PoolIds -> SUBSET {DATA_SUFFIX, TIMESIZE_SUFFIX}]}

\* folders of n complete pairs with numeric ids 8, 9, 10, ...
WideFolders ==
    {UNION {{toString(7 + k) \o DATA_SUFFIX, toString(7 + k) \o TIMESIZE_SUFFIX} :
                k \in 1..n} : n \in 0..WideIds}

Said(transcript, confidence) ==
    [error |-> FALSE,
     response |-> [results |-> <<[alternatives |->
        <<[transcript |-> transcript, confidence |-> confidence, words |-> 1]>>]>>]]
GatewayDown == [error |-> TRUE]

\* what the file system and the gateway may do during a run
Environment ==
    [mkdirs |-> BOOLEAN, readdirs |-> BOOLEAN, orders |-> {"asc", "desc"},
     ledgers |-> {<<"1", "/", "3">>, <<"x">>, <<"1", "/", "1", "/", "1">>, <<>>},
     payloads |-> {<<1, 2, 3>>, <<>>},
     writes |-> BOOLEAN,
     gateways |-> {GatewayDown, Said(Voicemail, 900), Said(Hello, 800)},
     saves |-> BOOLEAN,
     clocks |-> {0, 1254}]

\* well-formed artifacts and no input/output failure; the gateway may fail
PlainEnvironment ==
    [mkdirs |-> {TRUE}, readdirs |-> {TRUE}, orders |-> {"desc"},
     ledgers |-> {<<"1", "/", "3">>},
     payloads |-> {<<1, 2, 3>>},
     writes |-> {TRUE},
     gateways |-> {GatewayDown, Said(Voicemail, 900), Said(Hello, 800)},
     saves |-> {TRUE},
     clocks |-> {1254}]

RECURSIVE Ascending(_)
Ascending(S) ==
    IF S = {} THEN <<>>
    ELSE LET m == CHOOSE x \in S : \A y \in S : ~StringLess(y, x)
         IN <<m>> \o Ascending(S \ {m})
Reverse(q) == [k \in DOMAIN q |-> q[Len(q) + 1 - k]]
\* fs.readdir returns the names in an order of its own
Listing(S, order) == IF order = "asc" THEN Ascending(S) ELSE Reverse(Ascending(S))

InitBatch(folders) ==
    /\ call = NoCall
    /\ ret = NotReturned
    /\ files \in folders
    /\ disk = <<>>
    /\ written = <<>>
    /\ madeDirs = {}
    /\ outputDir = PATHS_OUTPUT_DIR
    /\ dataDir = PATHS_DATA_DIR
    /\ pc = "start"
    /\ originalOutputDir = <<>>
    /\ originalDataDir = <<>>
    /\ baseIds = <<>>
    /\ i = 0
    /\ audioFiles = NotReturned
    /\ wavResult = NotReturned
    /\ speechFiles = NotReturned
    /\ results = <<>>
    /\ successCount = 0
    /\ failureCount = 0
    /\ answeringMachineCount = 0
    /\ batchResult = NotReturned
    /\ trace = <<>>
    /\ runs = <<>>

(***************************************************************************)
(* BatchProcessor.processFolderBatch and processCompleteWorkflow           *)
(***************************************************************************)
createOutputDirectory(OUTPUT_DIR, name, mkdirOk) ==
    IF mkdirOk THEN Ok(join(OUTPUT_DIR, name))
    ELSE Threw([text |-> "Failed to create output directory",
                outputDir |-> join(OUTPUT_DIR, name), cause |-> [text |-> "EACCES"]])

\* a faulty variant of updateOutputPaths: PATHS.OUTPUT_DIR is left as it is
updateOutputPathsKept(OUTPUT_DIR, name) == OUTPUT_DIR

\* the new value of PATHS.OUTPUT_DIR
updateOutputPaths(OUTPUT_DIR, name) == join(OUTPUT_DIR, name)

\* the catch block of processFolderBatch
BatchFailed(message) ==
    [folderPath |-> FOLDER_PATH, folderName |-> basename(FOLDER_PATH),
     success |-> FALSE, error |-> message]

\* Number.prototype.toFixed(2) of a number given in hundredths
toFixed2(h) ==
    toString(h \div 100) \o <<".", Digits[((h \div 10) % 10) + 1], Digits[(h % 10) + 1]>>

\* ((Date.now() - startTime) / 1000).toFixed(2) + 's', elapsed in milliseconds
ProcessingTime(elapsed) == toFixed2((elapsed + 5) \div 10) \o <<"s">>

\* a faulty variant of WorkflowCatch: the error is thrown on to the loop
WorkflowRethrow(baseId, message, elapsed) == Threw(message)

\* a faulty variant of WorkflowCatch: the failure result holds no duration
WorkflowCatchUntimed(baseId, message, elapsed) ==
    Ok([baseId |-> baseId, success |-> FALSE, error |-> message])

\* the catch block of processCompleteWorkflow: the error becomes a result
WorkflowCatch(baseId, message, elapsed) ==
    Ok([baseId |-> baseId, success |-> FALSE,
        processingTime |-> ProcessingTime(elapsed), error |-> message])

\* the result processCompleteWorkflow returns when all three steps succeed
WorkflowResult(baseId, wav, text, elapsed) ==
    Ok([baseId |-> baseId, success |-> TRUE,
        processingTime |-> ProcessingTime(elapsed), wav |-> wav, transcription |-> text,
        answeringMachine |->
            [detected |-> detectAnsweringMachine(Str(text.transcription.bestTranscript)),
             transcript |-> text.transcription.bestTranscript,
             confidence |-> text.transcription.bestConfidence]])

\* a faulty variant of BatchSummary: the detection rate is taken over all
\* the files
BatchSummaryOverTotal(ids, nSuccess, nFailure, nDetected, rs) ==
    [folderPath |-> FOLDER_PATH, folderName |-> folderName, success |-> TRUE,
     summary |-> [totalFiles |-> Len(ids),
                  successCount |-> nSuccess,
                  failureCount |-> nFailure,
                  answeringMachineCount |-> nDetected,
                  successRate |-> Ratio(nSuccess, Len(ids)),
                  detectionRate |-> IF nSuccess > 0 THEN Ratio(nDetected, Len(ids))
                                    ELSE Ratio(0, 1)],
     results |-> rs]

\* the summary processFolderBatch returns after the loop
BatchSummary(ids, nSuccess, nFailure, nDetected, rs) ==
    [folderPath |-> FOLDER_PATH, folderName |-> folderName, success |-> TRUE,
     summary |-> [totalFiles |-> Len(ids),
                  successCount |-> nSuccess,
                  failureCount |-> nFailure,
                  answeringMachineCount |-> nDetected,
                  successRate |-> Ratio(nSuccess, Len(ids)),
                  detectionRate |-> IF nSuccess > 0 THEN Ratio(nDetected, nSuccess)
                                    ELSE Ratio(0, 1)],
     results |-> rs]

\* processFolderBatch throws when discovery returns no id
NoneIsAnError(found) ==
    IF found.threw THEN found
    ELSE IF Len(found.value) = 0
    THEN Threw([text |-> "No audio files found in", folderPath |-> FOLDER_PATH])
    ELSE found

CreateOutputDirectory(E) ==
    /\ pc = "start"
    /\ \E mkdirOk \in E.mkdirs :
      \E made \in {createOutputDirectory(outputDir, folderName, mkdirOk)} :
           IF made.threw
           THEN /\ batchResult' = Returned(BatchFailed(made.message))
                /\ pc' = "done"
                /\ UNCHANGED <<madeDirs, originalOutputDir, outputDir>>
           ELSE /\ madeDirs' = madeDirs \cup {made.value}
                /\ originalOutputDir' = outputDir
                /\ outputDir' = updateOutputPaths(outputDir, folderName)
                /\ pc' = "discover"
                /\ UNCHANGED batchResult
    /\ UNCHANGED <<libVars, files, disk, written, dataDir, originalDataDir, baseIds, i,
                   audioFiles, wavResult, speechFiles, results, successCount,
                   failureCount, answeringMachineCount, trace, runs>>

Discover(E) ==
    /\ pc = "discover"
    /\ \E readable \in E.readdirs, order \in E.orders :
      \E found \in {NoneIsAnError(discoverAudioFiles(FOLDER_PATH, readable,
                                                      Listing(files, order), files))} :
           IF found.threw
           THEN /\ outputDir' = originalOutputDir
                /\ batchResult' = Returned(BatchFailed(found.message))
                /\ pc' = "done"
                /\ UNCHANGED baseIds
           ELSE /\ baseIds' = found.value
                /\ pc' = "loop"
                /\ UNCHANGED <<outputDir, batchResult>>
    /\ i' = 0
    /\ results' = <<>>
    /\ successCount' = 0
    /\ failureCount' = 0
    /\ answeringMachineCount' = 0
    /\ UNCHANGED <<libVars, fsVars, files, disk, dataDir, originalOutputDir,
                   originalDataDir, audioFiles, wavResult, speechFiles, trace, runs>>

\* the loop takes the next id; processCompleteWorkflow points PATHS.DATA_DIR
\* at the folder and calls processAudio, which computes its paths
StartItem ==
    /\ pc = "loop"
    /\ i < Len(baseIds)
    /\ originalDataDir' = dataDir
    /\ dataDir' = FOLDER_PATH
    /\ audioFiles' = Returned(AudioPaths(baseIds[i + 1], FOLDER_PATH, outputDir))
    /\ pc' = "audio"
    /\ UNCHANGED <<libVars, fsVars, files, disk, outputDir, originalOutputDir, baseIds,
                   i, wavResult, speechFiles, results, successCount, failureCount,
                   answeringMachineCount, batchResult, trace, runs>>

\* a faulty variant of ItemReturns: the loop goes on to the next id without
\* the result of a failed item
ItemReturnsUnrecorded(w) ==
    IF w.threw
    THEN /\ outputDir' = originalOutputDir
         /\ batchResult' = Returned(BatchFailed(w.message))
         /\ pc' = "done"
         /\ UNCHANGED <<results, successCount, failureCount, answeringMachineCount, i>>
    ELSE /\ results' = IF w.value.success THEN Append(results, w.value) ELSE results
         /\ successCount' = IF w.value.success THEN successCount + 1 ELSE successCount
         /\ answeringMachineCount' =
                IF w.value.success /\ w.value.answeringMachine.detected
                THEN answeringMachineCount + 1 ELSE answeringMachineCount
         /\ failureCount' = IF w.value.success THEN failureCount ELSE failureCount + 1
         /\ i' = i + 1
         /\ pc' = "loop"
         /\ UNCHANGED <<outputDir, batchResult>>

\* a faulty variant of ItemReturns: the result is put before the earlier ones
ItemReturnsFirst(w) ==
    IF w.threw
    THEN /\ outputDir' = originalOutputDir
         /\ batchResult' = Returned(BatchFailed(w.message))
         /\ pc' = "done"
         /\ UNCHANGED <<results, successCount, failureCount, answeringMachineCount, i>>
    ELSE /\ results' = <<w.value>> \o results
         /\ successCount' = IF w.value.success THEN successCount + 1 ELSE successCount
         /\ answeringMachineCount' =
                IF w.value.success /\ w.value.answeringMachine.detected
                THEN answeringMachineCount + 1 ELSE answeringMachineCount
         /\ failureCount' = IF w.value.success THEN failureCount ELSE failureCount + 1
         /\ i' = i + 1
         /\ pc' = "loop"
         /\ UNCHANGED <<outputDir, batchResult>>

\* processCompleteWorkflow has returned w to the loop, or thrown it
ItemReturns(w) ==
    IF w.threw
    THEN /\ outputDir' = originalOutputDir
         /\ batchResult' = Returned(BatchFailed(w.message))
         /\ pc' = "done"
         /\ UNCHANGED <<results, successCount, failureCount, answeringMachineCount, i>>
    ELSE /\ results' = Append(results, w.value)
         /\ successCount' = IF w.value.success THEN successCount + 1 ELSE successCount
         /\ answeringMachineCount' =
                IF w.value.success /\ w.value.answeringMachine.detected
                THEN answeringMachineCount + 1 ELSE answeringMachineCount
         /\ failureCount' = IF w.value.success THEN failureCount ELSE failureCount + 1
         /\ i' = i + 1
         /\ pc' = "loop"
         /\ UNCHANGED <<outputDir, batchResult>>

\* the file of that name in the batch folder, with the content the read finds
InFolder(path, content) ==
    IF path.dir = FOLDER_PATH /\ path.name \in files THEN FileOf(content) ELSE Absent

\* the files processAudio has read, with what it found in them
FilesRead(paths, timeSize, payload) ==
    IF ReadsPayload(timeSize)
    THEN (paths.timeSizeFile.name :> timeSize) @@ (paths.dataFile.name :> payload)
    ELSE (paths.timeSizeFile.name :> timeSize)

Reconstruct(E) ==
    /\ pc = "audio"
    /\ trace' = Append(trace, [op |-> "processAudio", baseId |-> baseIds[i + 1],
                               failed |-> FALSE])
    /\ \E ledger \in E.ledgers, bytes \in E.payloads, writeOk \in E.writes,
          elapsed \in E.clocks :
      \E baseId \in {baseIds[i + 1]}, paths \in {audioFiles.out} :
      \E timeSize \in {InFolder(paths.timeSizeFile, ledger)},
         payload \in {InFolder(paths.dataFile, bytes)} :
      \E r \in {processAudio(baseId, paths, timeSize, payload, writeOk)} :
           /\ disk' = FilesRead(paths, timeSize, payload) @@ disk
           /\ IF r.out.threw
              THEN /\ ItemReturns(WorkflowCatch(baseId, r.out.message, elapsed))
                   /\ UNCHANGED <<written, madeDirs, wavResult, speechFiles>>
              ELSE /\ written' = (r.path :> r.data) @@ written
                   /\ madeDirs' = madeDirs \cup {dirname(r.path)}
                   /\ wavResult' = Returned(r.out.value)
                   /\ speechFiles' = Returned(SpeechPaths(baseId, outputDir))
                   /\ pc' = "speech"
                   /\ UNCHANGED <<results, successCount, failureCount,
                                  answeringMachineCount, i, outputDir, batchResult>>
    /\ UNCHANGED <<libVars, files, dataDir, originalOutputDir, originalDataDir, baseIds,
                   audioFiles, runs>>

\* client.recognize is called when the WAV file is there to be read
Recognize(baseId, files2, output, gateway) ==
    IF files2.wavFile \in DOMAIN output
    THEN <<[op |-> "recognize", baseId |-> baseId, failed |-> gateway.error]>>
    ELSE <<>>

\* a faulty variant of Transcribe: a failed call of the gateway is made again
TranscribeAgain(E) ==
    /\ pc = "speech"
    /\ \E gateway \in E.gateways, saveOk \in E.saves, elapsed \in E.clocks :
      \E baseId \in {baseIds[i + 1]} :
      \E r \in {processSpeech(baseId, speechFiles.out, written, gateway, saveOk)} :
           /\ trace' = trace \o Recognize(baseId, speechFiles.out, written, gateway)
           /\ IF r.out.threw /\ gateway.error
              THEN UNCHANGED <<written, dataDir, results, successCount, failureCount,
                               answeringMachineCount, i, pc, outputDir, batchResult>>
              ELSE IF r.out.threw
              THEN /\ ItemReturns(WorkflowCatch(baseId, r.out.message, elapsed))
                   /\ UNCHANGED <<written, dataDir>>
              ELSE /\ written' = (r.path :> r.data) @@ written
                   /\ dataDir' = originalDataDir
                   /\ ItemReturns(WorkflowResult(baseId, wavResult.out, r.out.value,
                                                 elapsed))
    /\ UNCHANGED <<libVars, files, disk, madeDirs, originalOutputDir, originalDataDir,
                   baseIds, audioFiles, wavResult, speechFiles, runs>>

Transcribe(E) ==
    /\ pc = "speech"
    /\ \E gateway \in E.gateways, saveOk \in E.saves, elapsed \in E.clocks :
      \E baseId \in {baseIds[i + 1]} :
      \E r \in {processSpeech(baseId, speechFiles.out, written, gateway, saveOk)} :
           /\ trace' = trace \o Recognize(baseId, speechFiles.out, written, gateway)
           /\ IF r.out.threw
              THEN /\ ItemReturns(WorkflowCatch(baseId, r.out.message, elapsed))
                   /\ UNCHANGED <<written, dataDir>>
              ELSE /\ written' = (r.path :> r.data) @@ written
                   /\ dataDir' = originalDataDir
                   /\ ItemReturns(WorkflowResult(baseId, wavResult.out, r.out.value,
                                                 elapsed))
    /\ UNCHANGED <<libVars, files, disk, madeDirs, originalOutputDir, originalDataDir,
                   baseIds, audioFiles, wavResult, speechFiles, runs>>

Finish ==
    /\ pc = "loop"
    /\ i >= Len(baseIds)
    /\ batchResult' = Returned(BatchSummary(baseIds, successCount, failureCount,
                                            answeringMachineCount, results))
    /\ outputDir' = originalOutputDir
    /\ pc' = "done"
    /\ UNCHANGED <<libVars, fsVars, files, disk, dataDir, originalOutputDir,
                   originalDataDir, baseIds, i, audioFiles, wavResult, speechFiles,
                   results, successCount, failureCount, answeringMachineCount, trace, runs>>

Init == InitBatch(Folders)
Next ==
    \/ CreateOutputDirectory(Environment)
    \/ Discover(Environment)
    \/ StartItem
    \/ Reconstruct(Environment)
    \/ Transcribe(Environment)
    \/ Finish
Spec == Init /\ [][Next]_vars

\* --- every awaited call returns ------------------------------------------
\* a faulty variant of TranscribeReturns: the call for the first id of the
\* pool is never answered
TranscribeMayNotReturn(E) ==
    pc = "speech" /\ baseIds[i + 1] # IdPool[1] /\ Transcribe(E)

\* client.recognize returns or throws, and with it processSpeech
TranscribeReturns(E) == Transcribe(E)

\* Each step of the run is the return of the call the run is waiting for
\* (fs.mkdir, fs.readdir and fs.access, the reads and the write of
\* processAudio, client.recognize and the write of processSpeech) followed by
\* synchronous code up to the next await.  That every such call returns is
\* weak fairness of the step: the run waits for one call at a time, and the
\* step stays enabled until it is taken.
\* every call may succeed or fail; one clock reading and one listing order
FairEnvironment ==
    [Environment EXCEPT !.clocks = {1254}, !.orders = {"desc"},
                        !.ledgers = {<<"1", "/", "3">>, <<"x">>},
                        !.payloads = {<<1, 2, 3>>},
                        !.gateways = {GatewayDown, Said(Hello, 800)}]
NextFair ==
    \/ CreateOutputDirectory(FairEnvironment)
    \/ Discover(FairEnvironment)
    \/ StartItem
    \/ Reconstruct(FairEnvironment)
    \/ TranscribeReturns(FairEnvironment)
    \/ Finish
SpecFair == Init /\ [][NextFair]_vars /\ WF_vars(NextFair)

\* --- a gateway that does not answer --------------------------------------
\* the id for which client.recognize never returns
StalledId == IdPool[1]

\* a faulty variant of TranscribeUnlessStalled: a call that does not return
\* is given up and the item fails
TranscribeOrTimeout(E) ==
    \/ pc = "speech" /\ baseIds[i + 1] # StalledId /\ Transcribe(E)
    \/ /\ pc = "speech"
       /\ baseIds[i + 1] = StalledId
       /\ \E elapsed \in E.clocks :
            ItemReturns(WorkflowCatch(baseIds[i + 1], [text |-> "Timeout"], elapsed))
       /\ trace' = trace \o Recognize(baseIds[i + 1], speechFiles.out, written, GatewayDown)
       /\ UNCHANGED <<libVars, fsVars, files, disk, dataDir, originalOutputDir,
                      originalDataDir, baseIds, audioFiles, wavResult, speechFiles, runs>>

\* await client.recognize(request): processSpeech goes on when the call
\* returns or throws, and not before
TranscribeUnlessStalled(E) ==
    pc = "speech" /\ baseIds[i + 1] # StalledId /\ Transcribe(E)

InitStalled == InitBatch(Folders)
NextStalled ==
    \/ CreateOutputDirectory(Environment)
    \/ Discover(Environment)
    \/ StartItem
    \/ Reconstruct(Environment)
    \/ TranscribeUnlessStalled(Environment)
    \/ Finish
SpecStalled == InitStalled /\ [][NextStalled]_vars

InitWide == InitBatch(WideFolders)
NextWide ==
    \/ CreateOutputDirectory(PlainEnvironment)
    \/ Discover(PlainEnvironment)
    \/ StartItem
    \/ Reconstruct(PlainEnvironment)
    \/ Transcribe(PlainEnvironment)
    \/ Finish
SpecWide == InitWide /\ [][NextWide]_vars

(***************************************************************************)
(* BatchProcessor.exportResultsToCSV and saveBatchResults                  *)
(* The exported text is a sequence of characters; a piece of text whose    *)
(* spelling does not matter (a directory, a header cell) is one element.   *)
(***************************************************************************)
RECURSIVE DoubleQuotes(_)
\* String.prototype.replace(/"/g, '""')
DoubleQuotes(s) ==
    IF s = <<>> THEN <<>>
    ELSE (IF Head(s) = "\"" THEN <<"\"", "\"">> ELSE <<Head(s)>>) \o DoubleQuotes(Tail(s))

\* the template `"${s}"`
Quoted(s) == <<"\"">> \o s \o <<"\"">>

\* Number.prototype.toFixed(3) of a confidence given in thousandths
toFixed3(c) ==
    toString(c \div 1000)
    \o <<".", Digits[((c \div 100) % 10) + 1], Digits[((c \div 10) % 10) + 1],
          Digits[(c % 10) + 1]>>

RECURSIVE joinWith(_, _)
\* Array.prototype.join
joinWith(parts, sep) ==
    IF parts = <<>> THEN <<>>
    ELSE IF Len(parts) = 1 THEN parts[1]
    ELSE parts[1] \o <<sep>> \o joinWith(Tail(parts), sep)

CsvHeaders ==
    <<<<"id">>, <<"u30c6u30adu30b9u30c8">>, <<"u30c6u30adu30b9u30c8u4fe1u983cu5ea6">>,
      <<"u6a5fu68b0u97f3u58f0u5224u5b9a">>, <<"wavu30d5u30a1u30a4u30ebu30d1u30b9">>,
      <<"txtu30d5u30a1u30a4u30ebu30d1u30b9">>, <<"u51e6u7406u6642u9593">>,
      <<"u6210u529f">>, <<"u30a8u30e9u30fc">>>>

\* the cells of the row of one result
CsvCells(result) ==
    IF result.success
    THEN <<Quoted(result.baseId),
           Quoted(DoubleQuotes(result.answeringMachine.transcript)),
           toFixed3(result.answeringMachine.confidence),
           IF result.answeringMachine.detected
           THEN <<"T", "R", "U", "E">> ELSE <<"F", "A", "L", "S", "E">>,
           Quoted(result.wav.files.wavFile),
           Quoted(result.transcription.files.txtFile),
           Quoted(result.processingTime),
           <<"T", "R", "U", "E">>,
           <<>>>>
    ELSE <<Quoted(result.baseId), Quoted(<<>>), <<>>, <<>>, <<>>, <<>>,
           Quoted(result.processingTime),
           <<"F", "A", "L", "S", "E">>,
           Quoted(DoubleQuotes(result.error))>>

CsvContent(batch) ==
    joinWith(<<joinWith(CsvHeaders, ",")>>
             \o [k \in DOMAIN batch.results |->
                    joinWith(CsvCells(batch.results[k]), ",")],
             "\n")

\* a faulty variant of exportResultsToCSV: a failed write is thrown on
exportOrThrow(batch, OUTPUT_DIR, writeOk) ==
    IF writeOk
    THEN [out |-> Ok(Path(join(OUTPUT_DIR, batch.folderName),
                          <<batch.folderName, "-results.csv">>)),
          wrote |-> TRUE, data |-> CsvContent(batch)]
    ELSE NothingWritten(Threw([text |-> "EIO"]))

\* returns the path of the file, or null when the write fails
exportResultsToCSV(batch, OUTPUT_DIR, writeOk) ==
    IF writeOk
    THEN [out |-> Ok(Path(join(OUTPUT_DIR, batch.folderName),
                          <<batch.folderName, "-results.csv">>)),
          wrote |-> TRUE, data |-> CsvContent(batch)]
    ELSE NothingWritten(Ok(Null))

saveBatchResults(batch, OUTPUT_DIR, writeOk) ==
    IF writeOk
    THEN [out |-> Ok(Path(join(OUTPUT_DIR, batch.folderName),
                          <<"batch-results-", batch.folderName, "-",
                            "timestamp", ".json">>)),
          wrote |-> TRUE, data |-> [format |-> "json", of |-> batch]]
    ELSE NothingWritten(Ok(Null))

\* --- the batch results that are exported ---------------------------------
Elapsed == ProcessingTime(1254)
ExportIds == {<<"7">>, <<"a", "\"", "b">>, <<"a", "\"", ",", "\"", "b">>}
SaysHi == <<"s", "a", "y", " ", "\"", "h", "i", "\"">>
ExportItems ==
    {[baseId |-> id, success |-> TRUE, processingTime |-> Elapsed,
      wav |-> [files |-> [wavFile |-> <<"output/20250702/">> \o id \o WAV_EXT]],
      transcription |-> [files |-> [txtFile |-> <<"output/20250702/">> \o id \o TXT_EXT]],
      answeringMachine |-> [detected |-> detectAnsweringMachine(Str(t.text)),
                            transcript |-> t.text, confidence |-> t.confidence]] :
        id \in ExportIds,
        t \in {[text |-> <<>>, confidence |-> 0], [text |-> Voicemail, confidence |-> 900],
               [text |-> SaysHi, confidence |-> 1000]}}
    \cup
    {[baseId |-> id, success |-> FALSE, processingTime |-> Elapsed,
      error |-> <<e[1]>> \o id \o Tail(e)] :
        id \in ExportIds,
        e \in {<<"Audio processing failed for ",
                 ": Invalid numbers in timing entry: ", "\"", "x", "\"">>,
               <<"Speech processing failed for ", ": ProviderError">>}}

Successes(rs) == {k \in DOMAIN rs : rs[k].success}
Detections(rs) == {k \in Successes(rs) : rs[k].answeringMachine.detected}
ExportedBatchResults ==
    {BatchSummary([k \in DOMAIN rs |-> rs[k].baseId],
                  Cardinality(Successes(rs)),
                  Len(rs) - Cardinality(Successes(rs)),
                  Cardinality(Detections(rs)),
                  rs) :
        rs \in {q \in SeqsUpTo(ExportItems, MaxRows) :
                  /\ q # <<>>
                  /\ \A k \in 1..(Len(q) - 1) : StringLess(q[k].baseId, q[k + 1].baseId)}}

InitExport ==
    /\ call \in {[op |-> "exportResultsToCSV"], [op |-> "saveBatchResults"]}
    /\ ret = NotReturned
    /\ batchResult \in {Returned(b) : b \in ExportedBatchResults}
    /\ pc = "done"
    /\ files = {}
    /\ disk = <<>>
    /\ written = <<>>
    /\ madeDirs = {join(PATHS_OUTPUT_DIR, folderName)}
    /\ outputDir = PATHS_OUTPUT_DIR
    /\ dataDir = PATHS_DATA_DIR
    /\ originalOutputDir = PATHS_OUTPUT_DIR
    /\ originalDataDir = PATHS_DATA_DIR
    /\ baseIds = [k \in DOMAIN batchResult.out.results |-> batchResult.out.results[k].baseId]
    /\ i = Len(baseIds)
    /\ audioFiles = NotReturned
    /\ wavResult = NotReturned
    /\ speechFiles = NotReturned
    /\ results = batchResult.out.results
    /\ successCount = batchResult.out.summary.successCount
    /\ failureCount = batchResult.out.summary.failureCount
    /\ answeringMachineCount = batchResult.out.summary.answeringMachineCount
    /\ trace = <<>>
    /\ runs = <<>>

Exported(r) ==
    /\ ret' = Returned(r.out)
    /\ written' = IF r.wrote THEN (r.out.value :> r.data) @@ written ELSE written
    /\ UNCHANGED <<call, batchVars, madeDirs>>

ExportResultsToCSV ==
    /\ call.op = "exportResultsToCSV"
    /\ ~ret.done
    /\ \E writeOk \in BOOLEAN :
       \E r \in {exportResultsToCSV(batchResult.out, outputDir, writeOk)} : Exported(r)

SaveBatchResults ==
    /\ call.op = "saveBatchResults"
    /\ ~ret.done
    /\ \E writeOk \in BOOLEAN :
       \E r \in {saveBatchResults(batchResult.out, outputDir, writeOk)} : Exported(r)

NextExport ==
    \/ ExportResultsToCSV
    \/ SaveBatchResults
SpecExport == InitExport /\ [][NextExport]_vars

(***************************************************************************)
(* index.js processFolderBatchWorkflow: the batch run, then the exports    *)
(* The results of a run hold paths and error messages as strings; here     *)
(* they are spelled out from the records the model keeps for them.         *)
(***************************************************************************)
\* the string of a path: the template `${dir}/${name}`
PathText(path) == joinWith([k \in DOMAIN path.dir |-> <<path.dir[k]>>], "/")
                  \o <<"/">> \o path.name

RECURSIVE MessageText(_)
\* the string of an error message, `${text} ${baseId}: ${cause}`
MessageText(m) ==
    <<m.text>>
    \o (IF "baseId" \in DOMAIN m THEN <<" ">> \o m.baseId ELSE <<>>)
    \o (IF "entry" \in DOMAIN m THEN <<": ", "\"">> \o m.entry \o <<"\"">> ELSE <<>>)
    \o (IF "path" \in DOMAIN m THEN <<": ">> \o PathText(m.path) ELSE <<>>)
    \o (IF "cause" \in DOMAIN m THEN <<": ">> \o MessageText(m.cause) ELSE <<>>)

\* the result of an item as exportResultsToCSV reads it
ResultText(result) ==
    IF result.success
    THEN [baseId |-> result.baseId, success |-> TRUE,
          processingTime |-> result.processingTime,
          wav |-> [files |-> [wavFile |-> PathText(result.wav.files.wavFile)]],
          transcription |->
              [files |-> [txtFile |-> PathText(result.transcription.files.txtFile)]],
          answeringMachine |-> result.answeringMachine]
    ELSE [baseId |-> result.baseId, success |-> FALSE,
          processingTime |-> result.processingTime,
          error |-> MessageText(result.error)]
BatchText(batch) ==
    [batch EXCEPT !.results = [k \in DOMAIN batch.results |-> ResultText(batch.results[k])]]

\* --csv: exportResultsToCSV(result) after a successful batch run
WorkflowExportCsv ==
    /\ pc = "done"
    /\ batchResult.done
    /\ batchResult.out.success
    /\ \E writeOk \in BOOLEAN :
       \E r \in {exportResultsToCSV(BatchText(batchResult.out), outputDir, writeOk)} :
           /\ call' = [op |-> "exportResultsToCSV"]
           /\ ret' = Returned(r.out)
           /\ written' = IF r.wrote THEN (r.out.value :> r.data) @@ written ELSE written
    /\ pc' = "exported"
    /\ UNCHANGED <<files, disk, madeDirs, outputDir, dataDir, originalOutputDir,
                   originalDataDir, baseIds, i, audioFiles, wavResult, speechFiles,
                   results, successCount, failureCount, answeringMachineCount,
                   batchResult, trace, runs>>

\* --save: saveBatchResults(result), after the CSV export if there is one
WorkflowSaveResults ==
    /\ pc \in {"done", "exported"}
    /\ batchResult.done
    /\ batchResult.out.success
    /\ \E writeOk \in BOOLEAN :
       \E r \in {saveBatchResults(batchResult.out, outputDir, writeOk)} :
           /\ call' = [op |-> "saveBatchResults"]
           /\ ret' = Returned(r.out)
           /\ written' = IF r.wrote THEN (r.out.value :> r.data) @@ written ELSE written
    /\ pc' = "saved"
    /\ UNCHANGED <<files, disk, madeDirs, outputDir, dataDir, originalOutputDir,
                   originalDataDir, baseIds, i, audioFiles, wavResult, speechFiles,
                   results, successCount, failureCount, answeringMachineCount,
                   batchResult, trace, runs>>

\* the environment of a run that is followed by exports: anything may fail,
\* the clock and the order of the directory listing are fixed
WorkflowEnvironment == [Environment EXCEPT !.clocks = {1254}, !.orders = {"desc"}]

InitWorkflow == InitBatch(Folders)
NextWorkflow ==
    \/ CreateOutputDirectory(WorkflowEnvironment)
    \/ Discover(WorkflowEnvironment)
    \/ StartItem
    \/ Reconstruct(WorkflowEnvironment)
    \/ Transcribe(WorkflowEnvironment)
    \/ Finish
    \/ WorkflowExportCsv
    \/ WorkflowSaveResults
SpecWorkflow == InitWorkflow /\ [][NextWorkflow]_vars

(***************************************************************************)
(* Several calls of processFolderBatch that share PATHS                    *)
(* A call runs without interruption from one await to the next; the steps  *)
(* below are the stretches between the awaits at which PATHS is read or    *)
(* written.  The locals of call r are kept in runs[r].                     *)
(***************************************************************************)
RunFolders == <<FOLDER_PATH, <<"data", "20250703">>>>
Runs == DOMAIN RunFolders
\* what discovery may find in a folder
RunIdLists == {<<>>, <<<<"7">>>>, <<<<"7">>, <<"8">>>>}
RunLedgers == {<<"1", "/", "3">>, <<"x">>}
RunGateways == {GatewayDown, Said(Hello, 800)}

NewRun(folderPath) ==
    [pc |-> "start", folderPath |-> folderPath, before |-> <<>>, made |-> NotReturned,
     originalOutputDir |-> <<>>, originalDataDir |-> <<>>, baseIds |-> <<>>, i |-> 0,
     audioFiles |-> NotReturned, speechFiles |-> NotReturned, wavResult |-> NotReturned,
     results |-> <<>>, batchResult |-> NotReturned]

InitRuns ==
    /\ call = NoCall
    /\ ret = NotReturned
    /\ files = {}
    /\ disk = <<>>
    /\ written = <<>>
    /\ madeDirs = {}
    /\ outputDir = PATHS_OUTPUT_DIR
    /\ dataDir = PATHS_DATA_DIR
    /\ pc = "idle"
    /\ originalOutputDir = <<>>
    /\ originalDataDir = <<>>
    /\ baseIds = <<>>
    /\ i = 0
    /\ audioFiles = NotReturned
    /\ wavResult = NotReturned
    /\ speechFiles = NotReturned
    /\ results = <<>>
    /\ successCount = 0
    /\ failureCount = 0
    /\ answeringMachineCount = 0
    /\ batchResult = NotReturned
    /\ trace = <<>>
    /\ runs = [r \in Runs |-> NewRun(RunFolders[r])]

\* a faulty variant of restoreOutputPaths: PATHS.OUTPUT_DIR is left as it is
restoreSkipped(OUTPUT_DIR, original) == OUTPUT_DIR

\* the new value of PATHS.OUTPUT_DIR
restoreOutputPaths(OUTPUT_DIR, original) == original

RunUntouched ==
    UNCHANGED <<libVars, files, disk, pc, originalOutputDir, originalDataDir, baseIds, i,
                audioFiles, wavResult, speechFiles, results, successCount, failureCount,
                answeringMachineCount, batchResult, trace>>

RunFailed(run, message) ==
    [run EXCEPT !.pc = "done",
                !.batchResult = Returned([BatchFailed(message) EXCEPT
                                              !.folderPath = run.folderPath,
                                              !.folderName = basename(run.folderPath)])]

\* processFolderBatch is called: createOutputDirectory joins PATHS.OUTPUT_DIR
\* and the folder name and awaits fs.mkdir
RunCalled(r) ==
    /\ runs[r].pc = "start"
    /\ \E mkdirOk \in BOOLEAN :
         runs' = [runs EXCEPT
                    ![r].pc = "mkdir",
                    ![r].before = outputDir,
                    ![r].made = Returned(createOutputDirectory(
                                    outputDir, basename(runs[r].folderPath), mkdirOk))]
    /\ UNCHANGED <<outputDir, dataDir, fsVars>>
    /\ RunUntouched

\* fs.mkdir has returned: updateOutputPaths, then discoverAudioFiles awaits
RunMade(r) ==
    /\ runs[r].pc = "mkdir"
    /\ IF runs[r].made.out.threw
       THEN /\ runs' = [runs EXCEPT ![r] = RunFailed(runs[r], runs[r].made.out.message)]
            /\ UNCHANGED <<outputDir, madeDirs>>
       ELSE /\ madeDirs' = madeDirs \cup {runs[r].made.out.value}
            /\ outputDir' = updateOutputPaths(outputDir, basename(runs[r].folderPath))
            /\ runs' = [runs EXCEPT ![r].pc = "discover",
                                    ![r].originalOutputDir = outputDir]
    /\ UNCHANGED <<dataDir, written>>
    /\ RunUntouched

\* processCompleteWorkflow is called for the id at index k: it points
\* PATHS.DATA_DIR at the folder and processAudio computes its paths
RunItemStarted(run, k, DATA_DIR, OUTPUT_DIR) ==
    [run EXCEPT !.pc = "audio", !.i = k - 1,
                !.originalDataDir = DATA_DIR,
                !.audioFiles = Returned(AudioPaths(run.baseIds[k], run.folderPath,
                                                   OUTPUT_DIR))]

\* the loop is over: the summary, and the finally block restores the path
RunFinished(run) ==
    [run EXCEPT !.pc = "done", !.i = Len(run.baseIds),
                !.batchResult =
                    Returned([folderPath |-> run.folderPath,
                              folderName |-> basename(run.folderPath),
                              success |-> TRUE, results |-> run.results])]

\* discoverAudioFiles has returned or thrown
RunDiscovered(r) ==
    /\ runs[r].pc = "discover"
    /\ \E found \in {Ok(ids) : ids \in RunIdLists}
                    \cup {Threw([text |-> "Failed to discover audio files in",
                                 folderPath |-> runs[r].folderPath,
                                 cause |-> [text |-> "ENOENT"]])} :
         IF found.threw \/ found.value = <<>>
         THEN /\ outputDir' = restoreOutputPaths(outputDir, runs[r].originalOutputDir)
              /\ runs' = [runs EXCEPT ![r] =
                            RunFailed(runs[r],
                                      IF found.threw THEN found.message
                                      ELSE [text |-> "No audio files found in",
                                            folderPath |-> runs[r].folderPath])]
              /\ UNCHANGED dataDir
         ELSE /\ dataDir' = runs[r].folderPath
              /\ runs' = [runs EXCEPT ![r] =
                            RunItemStarted([runs[r] EXCEPT !.baseIds = found.value],
                                           1, dataDir, outputDir)]
              /\ UNCHANGED outputDir
    /\ UNCHANGED fsVars
    /\ RunUntouched

\* processCompleteWorkflow has returned result to the loop; DATA_DIR is what
\* it left in PATHS.DATA_DIR.  The loop calls it for the next id or ends.
RunItemReturned(r, result, DATA_DIR) ==
    \E run \in {[runs[r] EXCEPT !.results = Append(runs[r].results, result)]} :
        IF Len(run.results) < Len(run.baseIds)
        THEN /\ runs' = [runs EXCEPT ![r] =
                           RunItemStarted(run, Len(run.results) + 1, DATA_DIR, outputDir)]
             /\ dataDir' = run.folderPath
             /\ UNCHANGED outputDir
        ELSE /\ runs' = [runs EXCEPT ![r] = RunFinished(run)]
             /\ dataDir' = DATA_DIR
             /\ outputDir' = restoreOutputPaths(outputDir, run.originalOutputDir)

\* processAudio has read its two files and written the WAV file, or failed;
\* on success processSpeech computes its paths and awaits
RunReconstructed(r) ==
    /\ runs[r].pc = "audio"
    /\ \E ledger \in RunLedgers :
       \E baseId \in {runs[r].baseIds[runs[r].i + 1]} :
       \E a \in {processAudio(baseId, runs[r].audioFiles.out, FileOf(ledger),
                              FileOf(<<1, 2, 3>>), TRUE)} :
           IF a.out.threw
           THEN /\ RunItemReturned(r, WorkflowCatch(baseId, a.out.message, 1254).value,
                                   dataDir)
                /\ UNCHANGED <<written, madeDirs>>
           ELSE /\ written' = (a.path :> a.data) @@ written
                /\ madeDirs' = madeDirs \cup {dirname(a.path)}
                /\ runs' = [runs EXCEPT
                              ![r].pc = "speech",
                              ![r].wavResult = Returned(a.out.value),
                              ![r].speechFiles = Returned(SpeechPaths(baseId, outputDir))]
                /\ UNCHANGED <<outputDir, dataDir>>
    /\ RunUntouched

\* processSpeech has returned or thrown
RunTranscribed(r) ==
    /\ runs[r].pc = "speech"
    /\ \E gateway \in RunGateways :
       \E baseId \in {runs[r].baseIds[runs[r].i + 1]} :
       \E t \in {processSpeech(baseId, runs[r].speechFiles.out, written, gateway, TRUE)} :
           IF t.out.threw
           THEN /\ RunItemReturned(r, WorkflowCatch(baseId, t.out.message, 1254).value,
                                   dataDir)
                /\ UNCHANGED written
           ELSE /\ written' = (t.path :> t.data) @@ written
                /\ RunItemReturned(r, WorkflowResult(baseId, runs[r].wavResult.out,
                                                     t.out.value, 1254).value,
                                   runs[r].originalDataDir)
    /\ UNCHANGED madeDirs
    /\ RunUntouched

\* the calls are made at any moment, also while another one is suspended
NextInterleaved ==
    \/ \E r \in Runs : RunCalled(r)
    \/ \E r \in Runs : RunMade(r)
    \/ \E r \in Runs : RunDiscovered(r)
    \/ \E r \in Runs : RunReconstructed(r)
    \/ \E r \in Runs : RunTranscribed(r)
SpecInterleaved == InitRuns /\ [][NextInterleaved]_vars

\* a call is made only when no other call is under way
NoneUnderWay == \A r \in Runs : runs[r].pc \in {"start", "done"}
RunCalledInTurn(r) == NoneUnderWay /\ RunCalled(r)
NextInTurn ==
    \/ \E r \in Runs : RunCalledInTurn(r)
    \/ \E r \in Runs : RunMade(r)
    \/ \E r \in Runs : RunDiscovered(r)
    \/ \E r \in Runs : RunReconstructed(r)
    \/ \E r \in Runs : RunTranscribed(r)
SpecInTurn == InitRuns /\ [][NextInTurn]_vars

(***************************************************************************)
(* Ledger parsing: C9, C10                                                 *)
(***************************************************************************)
\* the ledger grammar: a field is a non-negative base-10 integer, a segment
\* is exactly two fields separated by '/'
WellFormedField(f) ==
    LET t == trim(f) IN t # <<>> /\ \A k \in DOMAIN t : t[k] \in DigitSet
WellFormedSegment(seg) ==
    LET fields == split(seg, "/")
    IN Len(fields) = 2 /\ WellFormedField(fields[1]) /\ WellFormedField(fields[2])
HasMalformedSegment(text) ==
    LET segs == split(text, ",")
    IN \E k \in DOMAIN segs : trim(segs[k]) # <<>> /\ ~WellFormedSegment(segs[k])

ParseReturned == call.op = "parseTimingData" /\ ret.done

\* C9: parse fails for every ledger text with a non-empty segment that is not
\* exactly two '/'-separated non-negative base-10 integers.
C9_MalformedSegmentRejected ==
    (ParseReturned /\ HasMalformedSegment(call.text)) => ret.out.threw

\* C10: rendering a valid ledger as comma-separated 'timestampMs/sizeBytes'
\* text and parsing it yields the same entries, in order, with sequenceIndex
\* equal to the position 0..n-1.
C10_ParseInvertsRender ==
    (ParseReturned /\ call.ledger # <<>>) =>
        /\ ~ret.out.threw
        /\ ret.out.value = call.ledger
        /\ \A k \in DOMAIN ret.out.value : ret.out.value[k].index = k - 1

C10_Witness ==
    /\ ParseReturned
    /\ Len(call.ledger) = 2
    /\ call.ledger[2].timestamp >= 10
    /\ call.text = Render(call.ledger)
    /\ ~ret.out.threw
    /\ ret.out.value[2] = [timestamp |-> call.ledger[2].timestamp,
                           size |-> call.ledger[2].size, index |-> 1]

(***************************************************************************)
(* Container synthesis: C7, C8                                             *)
(***************************************************************************)
\* the unsigned 32-bit little-endian number in bytes at..at+3 (0-based offset)
DecodeUInt32LE(bytes, at) ==
    [hi |-> bytes[at + 3] + 256 * bytes[at + 4], lo |-> bytes[at + 1] + 256 * bytes[at + 2]]

HeaderReturned == call.op = "generateHeader" /\ ret.done

HeaderIsFor(bytes, n) ==
    /\ Len(bytes) = 44
    /\ DecodeUInt32LE(bytes, 4) = WideAdd(n, 36)
    /\ DecodeUInt32LE(bytes, 40) = n

\* C8 as stated: for every non-negative integer n, header(n) returns exactly
\* 44 bytes whose bytes 4-7 decode to n+36 and whose bytes 40-43 decode to n.
C8_HeaderForEveryLength ==
    HeaderReturned => (~ret.out.threw /\ HeaderIsFor(ret.out.value, call.audioDataLength))

\* C8 amended: for every n with 0 <= n <= 2^32 - 37 the header is 44 bytes
\* with n+36 in bytes 4-7 and n in bytes 40-43; for a larger n, whose n+36
\* does not fit the unsigned 32-bit field, header(n) raises a range error.
C8_HeaderWithinUInt32 ==
    HeaderReturned =>
        IF WideAdd(call.audioDataLength, 36).hi < Limb
        THEN ~ret.out.threw /\ HeaderIsFor(ret.out.value, call.audioDataLength)
        ELSE ret.out.threw /\ ret.out.message.text = "ERR_OUT_OF_RANGE"

C8_Witness ==
    /\ HeaderReturned
    /\ call.audioDataLength = [hi |-> Limb - 1, lo |-> Limb - 37]
    /\ ~ret.out.threw
    /\ SubSeq(ret.out.value, 5, 8) = <<255, 255, 255, 255>>
    /\ SubSeq(ret.out.value, 41, 44) = <<219, 255, 255, 255>>

AudioReturned == call.op = "processAudio" /\ ret.done

ParseableNonEmpty(file) ==
    /\ file.exists
    /\ ~parseTimingData(file.data).threw
    /\ Len(parseTimingData(file.data).value) > 0
ReadableNonEmpty(file) == file.exists /\ file.size > 0 /\ file.size <= MAX_FILE_SIZE

WavPathOf(baseId) == Path(PATHS_OUTPUT_DIR, baseId \o WAV_EXT)

\* C7: with a parseable non-empty ledger and a readable non-empty payload of n
\* bytes, reconstruction fails only if the container cannot be written, never
\* because the ledger's totalBytes differs from n; the written container is a
\* 44-byte header followed by the payload verbatim, n+44 bytes in all, with
\* declared payload length n and RIFF size n+36.
C7_ReconstructIgnoresMismatch ==
    (AudioReturned /\ ParseableNonEmpty(call.timeSize) /\ ReadableNonEmpty(call.payload)) =>
        LET n == call.payload.size
            p == WavPathOf(call.baseId)
        IN /\ ret.out.threw <=> ~call.writeOk
           /\ call.writeOk =>
                /\ p \in DOMAIN written
                /\ Len(written[p]) = n + 44
                /\ HeaderIsFor(SubSeq(written[p], 1, 44), Wide(n))
                /\ SubSeq(written[p], 45, Len(written[p])) = call.payload.data
                /\ ret.out.value.wav.totalSize = n + 44
                /\ ret.out.value.wav.audioDataSize = n

\* an 800-byte payload with a ledger that accounts for 640 bytes only
C7_Witness ==
    /\ AudioReturned
    /\ call.timeSize = FileOf(ShortLedger)
    /\ call.payload = FileOf(PayloadBytes(800, 0))
    /\ ~ret.out.threw
    /\ ret.out.value.timing.totalBytes = 640
    /\ Len(written[WavPathOf(call.baseId)]) = 844
    /\ DecodeUInt32LE(written[WavPathOf(call.baseId)], 4) = Wide(836)

(***************************************************************************)
(* The batch run: C1 .. C6                                                 *)
(***************************************************************************)
BatchDone == pc = "done" /\ batchResult.done
Discovered == pc \in {"loop", "audio", "speech"} \/ (pc = "done" /\ baseIds # <<>>)

\* C1: every failure inside an item's reconstruction, transcription or
\* classification becomes that item's result with success = false, and the
\* loop goes on: the batch ends with one result for every discovered id.
C1_ItemFailureIsolated ==
    /\ \A k \in DOMAIN results :
          ~results[k].success => "error" \in DOMAIN results[k]
    /\ pc \in {"loop", "audio", "speech"} => Len(results) = i
    /\ (BatchDone /\ baseIds # <<>>) =>
          /\ batchResult.out.success
          /\ Len(batchResult.out.results) = Len(baseIds)
          /\ \A k \in DOMAIN baseIds : batchResult.out.results[k].baseId = baseIds[k]

\* the first item fails in reconstruction, and the second is still processed
C1_Witness ==
    /\ BatchDone
    /\ Len(results) >= 2
    /\ ~results[1].success
    /\ results[1].error.text = "Audio processing failed for"
    /\ results[2].success

\* the ledger that was read for the id is malformed by the ledger grammar
CorruptPair(id) ==
    /\ (id \o TIMESIZE_SUFFIX) \in DOMAIN disk
    /\ disk[id \o TIMESIZE_SUFFIX].exists
    /\ HasMalformedSegment(disk[id \o TIMESIZE_SUFFIX].data)

\* C2: a batch over N valid pairs, each processed without failure, and one
\* structurally corrupt pair (a malformed ledger) completes without raising
\* with successCount = N and failureCount = 1; successCount + failureCount is
\* the number of results so far, at the end the number of discovered ids, and
\* successCount counts the results with success = true.
C2_CorruptPairCounted ==
    /\ successCount + failureCount = Len(results)
    /\ successCount = Cardinality({k \in DOMAIN results : results[k].success})
    /\ (BatchDone /\ baseIds # <<>>) =>
          /\ batchResult.out.success
          /\ successCount + failureCount = Len(baseIds)
          /\ LET corrupt == {k \in DOMAIN baseIds : CorruptPair(baseIds[k])}
             IN (/\ Cardinality(corrupt) = 1
                 /\ \A k \in DOMAIN baseIds \ corrupt : results[k].success)
                => (successCount = Len(baseIds) - 1 /\ failureCount = 1)

\* C3: the results of a completed batch are one per discovered id, in
\* discovery order, which is strictly ascending (sorted, without duplicates),
\* whichever items succeed or fail.
C3_ResultsInDiscoveryOrder ==
    /\ Discovered =>
          \A k \in 1..(Len(baseIds) - 1) : StringLess(baseIds[k], baseIds[k + 1])
    /\ \A k \in DOMAIN results : results[k].baseId = baseIds[k]
    /\ (BatchDone /\ batchResult.out.success) => Len(results) = Len(baseIds)

\* readdir listed the names in descending order; the second item failed
C3_Witness ==
    /\ BatchDone
    /\ batchResult.out.success
    /\ Len(baseIds) = 2
    /\ StringLess(baseIds[1], baseIds[2])
    /\ results[1].success
    /\ ~results[2].success

\* q is the quotient a / b
IsQuotient(q, a, b) == q.den > 0 /\ q.num * b = a * q.den

\* C4: in every summary successRate = successCount / total, the detection
\* count is the number of successful results with detected = true,
\* detectionRate = detectionCount / successCount, and 0 when successCount = 0;
\* 5 items with 4 successes, 2 of them detected, give 0.8 and 0.5.
C4_SummaryRates ==
    (BatchDone /\ batchResult.out.success) =>
        LET s == batchResult.out.summary
            succeeded == {k \in DOMAIN results : results[k].success}
            detected == {k \in succeeded : results[k].answeringMachine.detected}
        IN /\ s.totalFiles = Len(results)
           /\ s.successCount = Cardinality(succeeded)
           /\ s.answeringMachineCount = Cardinality(detected)
           /\ s.answeringMachineCount <= s.successCount
           /\ IsQuotient(s.successRate, s.successCount, s.totalFiles)
           /\ IF s.successCount = 0 THEN s.detectionRate.num = 0
              ELSE IsQuotient(s.detectionRate, s.answeringMachineCount, s.successCount)
           /\ (s.totalFiles = 5 /\ s.successCount = 4 /\ s.answeringMachineCount = 2) =>
                 /\ s.successRate = [num |-> 4, den |-> 5]
                 /\ s.detectionRate = [num |-> 1, den |-> 2]

C4_Witness ==
    /\ BatchDone
    /\ batchResult.out.success
    /\ batchResult.out.summary.totalFiles = 5
    /\ batchResult.out.summary.successCount = 4
    /\ batchResult.out.summary.answeringMachineCount = 2
    /\ batchResult.out.summary.successRate = [num |-> 4, den |-> 5]
    /\ batchResult.out.summary.detectionRate = [num |-> 1, den |-> 2]

\* an id qualifies when its payload artifact and its ledger artifact both exist
Qualifies(id, folder) ==
    (id \o DATA_SUFFIX) \in folder /\ (id \o TIMESIZE_SUFFIX) \in folder
\* the ids that have a payload artifact in the folder
PayloadIds(folder) ==
    {SubSeq(f, 1, Len(f) - Len(DATA_SUFFIX)) : f \in {g \in folder : endsWith(g, DATA_SUFFIX)}}

\* C5: discover returns an id only if both <id>_data and <id>_timeSize exist
\* in the folder; a payload artifact without a ledger is skipped.
C5_DiscoveredIdsQualify ==
    \A k \in DOMAIN baseIds : Qualifies(baseIds[k], files)

\* C6: when no id of the folder qualifies, the batch fails for want of items:
\* it processes no item and does not end as a successful summary.
C6_NoQualifyingIdIsFatal ==
    (BatchDone /\ ~\E id \in PayloadIds(files) : Qualifies(id, files)) =>
        /\ ~batchResult.out.success
        /\ results = <<>>
        /\ disk = <<>>
        /\ (madeDirs # {}
            /\ batchResult.out.error.text # "Failed to discover audio files in")
           => batchResult.out.error.text = "No audio files found in"

(***************************************************************************)
(* Ledger statistics and classification: C11, C12                          *)
(***************************************************************************)
StatsReturned == call.op = "getTimingStats" /\ ret.done

\* the sum of the sizes of the first k entries
RECURSIVE SizeOfFirst(_, _)
SizeOfFirst(entries, k) ==
    IF k = 0 THEN 0 ELSE SizeOfFirst(entries, k - 1) + entries[k].size

\* C11: for every non-empty ledger, stats returns entryCount = number of
\* entries, totalBytes = sum of the sizes, minTimestamp and maxTimestamp the
\* extremes over all the entries in whatever order they come, and
\* durationMs = maxTimestamp - minTimestamp >= 0; "0/320,40/320,80/160"
\* gives entryCount 3, totalBytes 800, durationMs 80.
C11_StatsOfLedger ==
    (StatsReturned /\ call.timingEntries # <<>>) =>
        LET es == call.timingEntries
            st == ret.out
        IN /\ ~st.isNull
           /\ st.entryCount = Len(es)
           /\ st.totalBytes = SizeOfFirst(es, Len(es))
           /\ \A k \in DOMAIN es :
                st.minTimestamp <= es[k].timestamp /\ es[k].timestamp <= st.maxTimestamp
           /\ \E k \in DOMAIN es : es[k].timestamp = st.minTimestamp
           /\ \E k \in DOMAIN es : es[k].timestamp = st.maxTimestamp
           /\ st.durationMs = st.maxTimestamp - st.minTimestamp
           /\ st.durationMs >= 0
           /\ (es = parseTimingData(ExampleLedger).value) =>
                (st.entryCount = 3 /\ st.totalBytes = 800 /\ st.durationMs = 80)

\* a ledger whose later entry carries the earlier timestamp
C11_Witness ==
    /\ StatsReturned
    /\ Len(call.timingEntries) = 2
    /\ call.timingEntries[1].timestamp = 10
    /\ call.timingEntries[2].timestamp = 3
    /\ ret.out.minTimestamp = 3
    /\ ret.out.maxTimestamp = 10
    /\ ret.out.durationMs = 7

DetectReturned == call.op = "detectAnsweringMachine" /\ ret.done

\* the keywords of the implementation that was called
KeywordsOf(impl) ==
    IF impl = "BatchProcessor" THEN japanesePatterns \cup englishPatterns
    ELSE scriptJapanesePatterns \cup scriptEnglishPatterns
\* some piece of s is one of the keywords
ContainsKeyword(s, keywords) ==
    \E a \in 1..Len(s) : \E b \in a..Len(s) : SubSeq(s, a, b) \in keywords

\* C12: classify returns false for null, non-string and empty input, and for
\* every string it returns true exactly when the lower-cased string contains
\* a keyword of the fixed set, so "VOICEMAIL" and "voicemail" both give true;
\* this holds for every call, whatever calls came before it.
C12_ClassifyTotalCaseInsensitive ==
    DetectReturned =>
        /\ ret.out \in BOOLEAN
        /\ call.transcript.type # "string" => ret.out = FALSE
        /\ call.transcript.type = "string" =>
             (ret.out <=> ContainsKeyword(toLowerCase(call.transcript.chars),
                                          KeywordsOf(call.of)))
        /\ call.transcript \in {Str(<<"V", "O", "I", "C", "E", "M", "A", "I", "L">>),
                                Str(toLowerCase(Voicemail))} => ret.out = TRUE
        /\ call.transcript = Str(<<>>) => ret.out = FALSE

C12_Witness ==
    /\ DetectReturned
    /\ call.of = "BatchProcessor"
    /\ call.transcript = Str(<<"b", "E", "e", "P">>)
    /\ ret.out = TRUE

(***************************************************************************)
(* Exports: C13, C14, C15                                                  *)
(* The exported text is read back by a parser of comma-separated values:   *)
(* a field is either enclosed in double quotes, with every double quote of *)
(* its value doubled, or holds no double quote at all; fields are          *)
(* separated by "," and rows by a line feed.                               *)
(***************************************************************************)
NoField == [ok |-> FALSE, quoted |-> FALSE, value |-> <<>>, next |-> 0]
FieldAt(quoted, value, next) ==
    [ok |-> TRUE, quoted |-> quoted, value |-> value, next |-> next]
Delimited(s, k) == k > Len(s) \/ s[k] \in {",", "\n"}

RECURSIVE ScanQuoted(_, _, _)
ScanQuoted(s, k, acc) ==
    IF k > Len(s) THEN NoField
    ELSE IF s[k] # "\"" THEN ScanQuoted(s, k + 1, Append(acc, s[k]))
    ELSE IF k < Len(s) /\ s[k + 1] = "\"" THEN ScanQuoted(s, k + 2, Append(acc, "\""))
    ELSE IF Delimited(s, k + 1) THEN FieldAt(TRUE, acc, k + 1)
    ELSE NoField

RECURSIVE ScanPlain(_, _, _)
ScanPlain(s, k, acc) ==
    IF Delimited(s, k) THEN FieldAt(FALSE, acc, k)
    ELSE IF s[k] = "\"" THEN NoField
    ELSE ScanPlain(s, k + 1, Append(acc, s[k]))

ParseField(s, k) ==
    IF k <= Len(s) /\ s[k] = "\"" THEN ScanQuoted(s, k + 1, <<>>)
    ELSE ScanPlain(s, k, <<>>)

NotCsv == [ok |-> FALSE, rows |-> <<>>]
RECURSIVE ParseRows(_, _, _, _)
RECURSIVE AfterField(_, _, _, _)
AfterField(s, field, row, rows) ==
    IF ~field.ok THEN NotCsv
    ELSE IF field.next > Len(s)
    THEN [ok |-> TRUE, rows |-> Append(rows, Append(row, field))]
    ELSE IF s[field.next] = ","
    THEN ParseRows(s, field.next + 1, Append(row, field), rows)
    ELSE ParseRows(s, field.next + 1, <<>>, Append(rows, Append(row, field)))
ParseRows(s, k, row, rows) == AfterField(s, ParseField(s, k), row, rows)
ParseCsv(text) == ParseRows(text, 1, <<>>, <<>>)

CsvWritten ==
    /\ call.op = "exportResultsToCSV"
    /\ ret.done
    /\ ~ret.out.threw
    /\ ret.out.value \in DOMAIN written
Exporting == call.op \in {"exportResultsToCSV", "saveBatchResults"}

\* the values a row must give back for one result
Recovered(row, result) ==
    /\ Len(row) = 9
    /\ \A c \in 1..9 : row[c].quoted
    /\ row[1].value = result.baseId
    /\ row[7].value = result.processingTime
    /\ IF result.success
       THEN /\ row[2].value = result.answeringMachine.transcript
            /\ row[5].value = result.wav.files.wavFile
            /\ row[6].value = result.transcription.files.txtFile
       ELSE row[9].value = result.error
RowsRecovered(parsed, rs) ==
    /\ parsed.ok
    /\ Len(parsed.rows) = Len(rs) + 1
    /\ Len(parsed.rows[1]) = 9
    /\ \A c \in 1..9 : parsed.rows[1][c].quoted
    /\ \A k \in DOMAIN rs : Recovered(parsed.rows[k + 1], rs[k])

\* C13: every field of every row of the exported CSV is enclosed in double
\* quotes with the double quotes of its value doubled, so that a compliant
\* parser finds exactly nine fields in every row and recovers every value,
\* a transcript with a literal double quote included, unchanged.
C13_CsvQuotedRoundTrip ==
    CsvWritten => RowsRecovered(ParseCsv(written[ret.out.value]), batchResult.out.results)

\* the columns of one data row, by position
InColumns(row, result) ==
    /\ Len(row) = 9
    /\ row[1].value = result.baseId
    /\ row[7].value = result.processingTime
    /\ row[8].value = (IF result.success THEN <<"T", "R", "U", "E">>
                                         ELSE <<"F", "A", "L", "S", "E">>)
    /\ IF result.success
       THEN /\ row[2].value = result.answeringMachine.transcript
            /\ row[3].value = toFixed3(result.answeringMachine.confidence)
            /\ row[4].value = (IF result.answeringMachine.detected
                               THEN <<"T", "R", "U", "E">> ELSE <<"F", "A", "L", "S", "E">>)
            /\ row[5].value = result.wav.files.wavFile
            /\ row[6].value = result.transcription.files.txtFile
            /\ row[9].value = <<>>
       ELSE /\ \A c \in 2..6 : row[c].value = <<>>
            /\ row[9].value = result.error
            /\ row[9].value # <<>>
RowPerItem(parsed, rs) ==
    /\ parsed.ok
    /\ Len(parsed.rows) = Len(rs) + 1
    /\ \A k \in DOMAIN rs : InColumns(parsed.rows[k + 1], rs[k])

\* C14: the exported CSV has exactly one data row per item result, in result
\* order, with the columns id, transcript, confidence, detection flag,
\* container path, transcript path, processing time, success flag, error;
\* the row of a failed item has empty transcript, confidence, detection and
\* path columns and a populated error column, the row of a successful item
\* an empty error column.
C14_CsvRowPerItem ==
    CsvWritten => RowPerItem(ParseCsv(written[ret.out.value]), batchResult.out.results)

\* C15: an export whose write fails returns null to its caller instead of
\* throwing, an export never throws, and no export, failed or not, changes
\* the batch result it was given.
C15_ExportFailureReported ==
    /\ [](Exporting /\ ret.done =>
            /\ ~ret.out.threw
            /\ (written = <<>> => ret.out.value = Null)
            /\ batchResult.out.results = results
            /\ batchResult.out.summary.successCount = successCount
            /\ batchResult.out.summary.failureCount = failureCount)
    /\ [][Exporting => batchResult' = batchResult]_vars
C15_Witness ==
    /\ call.op = "exportResultsToCSV"
    /\ ret.done
    /\ ~ret.out.threw
    /\ ret.out.value = Null
    /\ written = <<>>
    /\ batchResult.out.summary.failureCount = 1
    /\ batchResult.out.summary.successCount = 1

(***************************************************************************)
(* readAudioData: C16                                                      *)
(***************************************************************************)
ReadReturned == call.op = "readAudioData" /\ ret.done
Fails(out, text) == out.threw /\ out.message.text = text

\* C16: reading the payload fails with a not-found error when the file is
\* absent, with an empty-file error when its length is 0 and with a
\* too-large error when its length exceeds 50 MiB; a file of 1 to 50 MiB
\* inclusive is returned as it is, and a failing call returns no payload.
C16_ReadPayload ==
    ReadReturned =>
        IF ~call.file.exists THEN Fails(ret.out, "Audio file not found")
        ELSE IF call.file.size = 0 THEN Fails(ret.out, "Audio file is empty")
        ELSE IF call.file.size > 50 * 1024 * 1024 THEN Fails(ret.out, "File too large")
        ELSE ~ret.out.threw /\ ret.out.value = call.file.data
C16_Witness ==
    /\ ReadReturned
    /\ call.file.exists
    /\ call.file.size = 52428800
    /\ ~ret.out.threw
    /\ ret.out.value = [length |-> 52428800]

(***************************************************************************)
(* The items of a batch run: C17, C18, C19                                 *)
(***************************************************************************)
\* where item k of the run is: processAudio is running for it, processSpeech
\* is running for it, or its result has been pushed; classification is the
\* synchronous call between the return of processSpeech and the result
ItemState(k) ==
    IF k <= Len(results)
    THEN (IF results[k].success THEN "Completed" ELSE "Failed")
    ELSE IF k = i + 1 /\ pc = "audio" THEN "Reconstructing"
    ELSE IF k = i + 1 /\ pc = "speech" THEN "Transcribing"
    ELSE "Pending"
ItemSteps ==
    {<<"Pending", "Reconstructing">>, <<"Reconstructing", "Transcribing">>,
     <<"Reconstructing", "Failed">>, <<"Transcribing", "Completed">>,
     <<"Transcribing", "Failed">>}
    \cup {<<st, st>> : st \in {"Pending", "Reconstructing", "Transcribing",
                               "Completed", "Failed"}}
Last(q) == q[Len(q)]
TranscriptionStarts == pc # "speech" /\ pc' = "speech"
ItemCompletes == Len(results') > Len(results) /\ Last(results').success

\* C17: an item moves only from pending to reconstruction, from there to
\* transcription or failure, and from transcription (through classification)
\* to completion or failure; transcription starts only when processAudio has
\* just succeeded for that item, a classified result is pushed only when
\* processSpeech has just succeeded for it, and a pushed result never
\* changes afterwards.
C17_ItemStateMachine ==
    [][/\ \A k \in DOMAIN results : k \in DOMAIN results' /\ results'[k] = results[k]
       /\ \A k \in DOMAIN baseIds' : <<ItemState(k), ItemState(k)'>> \in ItemSteps
       /\ TranscriptionStarts =>
            /\ pc = "audio"
            /\ Last(trace') = [op |-> "processAudio", baseId |-> baseIds[i + 1],
                               failed |-> FALSE]
            /\ wavResult'.done
            /\ wavResult'.out.success
            /\ wavResult'.out.baseId = baseIds[i + 1]
            /\ wavResult'.out.files.wavFile \in DOMAIN written'
       /\ ItemCompletes =>
            /\ pc = "speech"
            /\ Last(trace') = [op |-> "recognize", baseId |-> baseIds[i + 1],
                               failed |-> FALSE]
            /\ Last(results').baseId = baseIds[i + 1]
            /\ Last(results').wav = wavResult.out
            /\ Last(results').transcription.success
            /\ Last(results').answeringMachine.transcript
                 = Last(results').transcription.transcription.bestTranscript
            /\ Last(results').answeringMachine.detected
                 = detectAnsweringMachine(Str(Last(results').answeringMachine.transcript))
      ]_vars
C17_Witness ==
    /\ pc = "loop"
    /\ Len(results) = 2
    /\ ~results[1].success
    /\ results[2].success
    /\ results[2].answeringMachine.detected

ResultKeys(r) == DOMAIN r
\* C18: every result holds the id of its item, a success flag and the
\* duration of the item; a failed result holds an error message and no WAV
\* information, transcription or detection, a successful one holds all
\* three and no error message.
C18_ResultShape ==
    \A k \in DOMAIN results :
        /\ {"baseId", "success", "processingTime"} \subseteq ResultKeys(results[k])
        /\ results[k].baseId = baseIds[k]
        /\ results[k].success \in BOOLEAN
        /\ results[k].processingTime \in {ProcessingTime(ms) : ms \in {0, 1254}}
        /\ IF results[k].success
           THEN /\ ResultKeys(results[k])
                     = {"baseId", "success", "processingTime", "wav", "transcription",
                        "answeringMachine"}
                /\ results[k].answeringMachine.detected \in BOOLEAN
                /\ results[k].wav.success
                /\ results[k].transcription.success
           ELSE /\ ResultKeys(results[k]) = {"baseId", "success", "processingTime", "error"}
                /\ results[k].error.text \in {"Audio processing failed for",
                                              "Speech processing failed for"}
C18_Witness ==
    /\ pc = "done"
    /\ batchResult.done
    /\ batchResult.out.success
    /\ Len(batchResult.out.results) = 2
    /\ batchResult.out.results = results
    /\ results[1].success
    /\ ~results[2].success
    /\ results[1].processingTime = <<"1", ".", "2", "5", "s">>
    /\ results[2].processingTime = <<"0", ".", "0", "0", "s">>

CallsOf(op, baseId) ==
    Cardinality({n \in DOMAIN trace : trace[n].op = op /\ trace[n].baseId = baseId})
GatewayFailureOf(result, baseId) ==
    /\ result.baseId = baseId
    /\ ~result.success
    /\ result.error.text = "Speech processing failed for"
    /\ result.error.baseId = baseId
    /\ result.error.cause.text = "Speech transcription failed"
    /\ result.error.cause.cause.text = "ProviderError"

\* C19: in a batch run client.recognize is called at most once for an item
\* and processAudio at most once, and a failed call of client.recognize is
\* found in the results as the failure of that item, with the id of the
\* item in its message.
C19_GatewayOncePerItem ==
    /\ \A n \in DOMAIN trace :
          /\ CallsOf(trace[n].op, trace[n].baseId) = 1
          /\ trace[n].op = "recognize" /\ trace[n].failed =>
                \E k \in DOMAIN results : GatewayFailureOf(results[k], trace[n].baseId)
    /\ \A k \in DOMAIN results :
          results[k].success => CallsOf("recognize", results[k].baseId) = 1
C19_Witness ==
    /\ pc = "loop"
    /\ Len(results) = 2
    /\ GatewayFailureOf(results[1], baseIds[1])
    /\ results[2].success
    /\ Len(trace) = 4

(***************************************************************************)
(* processRecognitionResults: C20                                          *)
(***************************************************************************)
RecognitionReturned == call.op = "processRecognitionResults" /\ ret.done
\* the alternatives of a response, in order: the first one of every result
\* that has any
AlternativesOf(response) ==
    [k \in DOMAIN SelectSeq(response.results, LAMBDA r : r.alternatives # <<>>) |->
        SelectSeq(response.results, LAMBDA r : r.alternatives # <<>>)[k].alternatives[1]]
FirstHighest(alts, k) ==
    /\ \A j \in DOMAIN alts : alts[j].confidence <= alts[k].confidence
    /\ \A j \in 1..(k - 1) : alts[j].confidence < alts[k].confidence
BestIs(out, alts) ==
    \E k \in DOMAIN alts :
        /\ FirstHighest(alts, k)
        /\ out.bestTranscript = alts[k].transcript
        /\ out.bestConfidence = alts[k].confidence

\* C20: for a response with at least one alternative, bestTranscript and
\* bestConfidence are the text and the confidence of the alternative of
\* highest confidence, the first of them when several share it, also when
\* every confidence is 0.
C20_BestIsFirstHighest ==
    RecognitionReturned /\ AlternativesOf(call.response) # <<>>
        => BestIs(ret.out, AlternativesOf(call.response))

(***************************************************************************)
(* The output directory of a run: C21                                      *)
(***************************************************************************)
\* <output>/<basename(F)>, as path.join spells it
FolderOutputDir == <<"output", basename(FOLDER_PATH)>>
InFolderOutput(path) == path.dir = FolderOutputDir
CsvExported == call.op = "exportResultsToCSV" /\ ret.done /\ ret.out.value # Null

\* C21: every file a batch run over F writes (the WAV and the text file of
\* each item) lies in <output>/<basename(F)>, the WAV and the text file of a
\* completed item are <id>.wav and <id>.txt there, processSpeech reads the
\* WAV from the very path processAudio wrote it to, and the CSV export of
\* the run is written in the same directory.
C21_FolderOutputDirectory ==
    /\ \A path \in DOMAIN written : InFolderOutput(path)
    /\ \A k \in DOMAIN results :
          results[k].success =>
             /\ results[k].wav.files.wavFile
                  = Path(FolderOutputDir, results[k].baseId \o WAV_EXT)
             /\ results[k].wav.wav.filePath = results[k].wav.files.wavFile
             /\ results[k].transcription.files.wavFile = results[k].wav.files.wavFile
             /\ results[k].transcription.transcription.filePath
                  = results[k].wav.files.wavFile
             /\ results[k].transcription.files.txtFile
                  = Path(FolderOutputDir, results[k].baseId \o TXT_EXT)
             /\ results[k].wav.files.wavFile \in DOMAIN written
             /\ results[k].transcription.files.txtFile \in DOMAIN written
    /\ pc = "speech" =>
          /\ speechFiles.out.wavFile = wavResult.out.wav.filePath
          /\ speechFiles.out.wavFile \in DOMAIN written
    /\ CsvExported =>
          /\ InFolderOutput(ret.out.value)
          /\ ret.out.value \in DOMAIN written
C21_Witness ==
    /\ pc = "exported"
    /\ CsvExported
    /\ Len(results) = 2
    /\ results[1].success
    /\ results[2].success
    /\ Cardinality(DOMAIN written) = 5

(***************************************************************************)
(* The order of the items: C22                                             *)
(***************************************************************************)
\* the ids a stage has been run for, and those among them without a result
Started == {trace[n].baseId : n \in DOMAIN trace}
Terminal == {results[k].baseId : k \in DOMAIN results}
InFlight ==
    (Started \ Terminal)
    \cup (IF pc \in {"audio", "speech"} THEN {baseIds[i + 1]} ELSE {})

\* C22: at every moment of a batch run at most one item is being
\* reconstructed, transcribed or classified, and a stage is run for an item
\* only when every item before it has its result, successful or failed.
C22_StrictlySequential ==
    /\ [](/\ Cardinality(InFlight) <= 1
          /\ InFlight \cap Terminal = {}
          /\ pc \in {"audio", "speech"} =>
                /\ Len(results) = i
                /\ Started \subseteq {baseIds[k] : k \in 1..(i + 1)})
    /\ [][trace' # trace =>
             /\ Len(trace') = Len(trace) + 1
             /\ Len(results) < Len(baseIds)
             /\ Last(trace').baseId = baseIds[Len(results) + 1]
             /\ \A k \in 1..Len(results) : results[k].baseId = baseIds[k]]_vars
C22_Witness ==
    /\ pc = "speech"
    /\ i = 1
    /\ Len(results) = 1
    /\ InFlight = {baseIds[2]}
    /\ Len(trace) = 3

(***************************************************************************)
(* A transcription call that never returns: C23                            *)
(***************************************************************************)
Stalled == pc = "speech" /\ baseIds[i + 1] = StalledId
LaterIds == {baseIds[k] : k \in (i + 2)..Len(baseIds)}

OwnOutputDir(r) == join(PATHS_OUTPUT_DIR, basename(RunFolders[r]))
RunWorking(r) == runs[r].pc \in {"discover", "audio", "speech"}
RunReturns(r) == runs[r].pc # "done" /\ runs'[r].pc = "done"
SucceededRun(r) ==
    /\ runs[r].pc = "done"
    /\ runs[r].batchResult.out.success
FailedRun(r) ==
    /\ runs[r].pc = "done"
    /\ ~runs[r].batchResult.out.success

\* C24: with the calls of processFolderBatch made one after the other,
\* PATHS.OUTPUT_DIR is the folder's own directory while a call works, each
\* call leaves it, however it ends, at the value it had when the call was
\* made, and between the calls it is at its initial value.
C24_OutputDirRestored ==
    /\ [](/\ NoneUnderWay => outputDir = PATHS_OUTPUT_DIR
          /\ \A r \in Runs : RunWorking(r) => outputDir = OwnOutputDir(r))
    /\ [][\A r \in Runs : RunReturns(r) =>
             /\ outputDir' = runs[r].before
             /\ outputDir' = PATHS_OUTPUT_DIR]_vars
C24_Witness ==
    /\ SucceededRun(1)
    /\ Len(runs[1].results) = 2
    /\ FailedRun(2)
    /\ runs[2].batchResult.out.error.text = "No audio files found in"
    /\ outputDir = PATHS_OUTPUT_DIR

\* the WAV files a call has reported that are not in its folder's directory
Misplaced(r) ==
    {k \in DOMAIN runs[r].results :
        /\ runs[r].results[k].success
        /\ dirname(runs[r].results[k].wav.files.wavFile) # OwnOutputDir(r)}
\* the values PATHS.OUTPUT_DIR takes with two calls
NestedDirs ==
    {join(OwnOutputDir(r), basename(RunFolders[q])) : r, q \in Runs}
        \cup {OwnOutputDir(r) : r \in Runs}

\* C25: with two calls of processFolderBatch interleaved at their awaits,
\* each call extends whatever value PATHS.OUTPUT_DIR has when its directory
\* is made and puts back the value it saved then, and every WAV file is
\* written where PATHS.OUTPUT_DIR pointed when its item was started; that
\* value may be the other call's, so that a WAV file lands outside the
\* directory of its folder and PATHS.OUTPUT_DIR is not at its initial value
\* after both calls.
C25_SharedPathHazard ==
    /\ [](/\ outputDir \in NestedDirs \cup {PATHS_OUTPUT_DIR}
          /\ \A r \in Runs : \A k \in DOMAIN runs[r].results :
                runs[r].results[k].success =>
                   /\ runs[r].results[k].wav.files.wavFile \in DOMAIN written
                   /\ dirname(runs[r].results[k].wav.files.wavFile)
                          \in NestedDirs \cup {PATHS_OUTPUT_DIR})
    /\ [][\A r \in Runs :
             /\ runs[r].pc = "mkdir" /\ RunWorking(r)' =>
                   /\ runs'[r].originalOutputDir = outputDir
                   /\ outputDir' = join(outputDir, basename(RunFolders[r]))
             /\ RunWorking(r) /\ RunReturns(r) =>
                   outputDir' = runs[r].originalOutputDir]_vars
C25_Witness ==
    /\ \A r \in Runs : runs[r].pc = "done"
    /\ outputDir # PATHS_OUTPUT_DIR
    /\ \E r \in Runs : Misplaced(r) # {}

(***************************************************************************)
(* A ledger without entries: C26                                           *)
(***************************************************************************)
Parseable(file) == file.exists /\ ~parseTimingData(file.data).threw
EntriesOf(file) == parseTimingData(file.data).value
StatisticsMissing(error) ==
    error.threw /\ error.message.cause.text = "Cannot read properties of null"

\* C26: getTimingStats returns null exactly for a ledger without entries,
\* and processAudio of an item whose ledger text holds no entries does not
\* fail for want of the statistics.
C26_EmptyLedgerNotAnError ==
    AudioReturned /\ Parseable(call.timeSize) =>
        /\ getTimingStats(EntriesOf(call.timeSize)).isNull
               <=> EntriesOf(call.timeSize) = <<>>
        /\ EntriesOf(call.timeSize) = <<>> => ~StatisticsMissing(ret.out)

(***************************************************************************)
(* The error of a failed item: C27                                         *)
(***************************************************************************)
\* the errors the try blocks of processAudio and of processSpeech raise
ReconstructionErrors ==
    {"ENOENT", "Invalid timing entry at index", "Invalid numbers in timing entry",
     "Cannot read properties of null", "Audio file not found", "Audio file is empty",
     "File too large", "EIO"}
TranscriptionErrors ==
    {"ENOENT", "Speech transcription failed", "Failed to save transcription"}
ItemFails == Len(results') = Len(results) + 1 /\ ~Last(results').success
FailedAt(result, stage, errors) ==
    /\ result.error.text = stage
    /\ result.error.baseId = result.baseId
    /\ result.error.cause.text \in errors

\* C27: the error recorded for a failed item names the stage that failed
\* and holds the error that stage raised: an item that fails while
\* processAudio runs is recorded with 'Audio processing failed for <id>' and
\* the parse, read or write error, one that fails while processSpeech runs
\* with 'Speech processing failed for <id>' and the gateway or save error;
\* classifying a transcript raises nothing.
C27_ErrorNamesStage ==
    /\ [](\A k \in DOMAIN results : ~results[k].success =>
            \/ FailedAt(results[k], "Audio processing failed for", ReconstructionErrors)
            \/ FailedAt(results[k], "Speech processing failed for", TranscriptionErrors))
    /\ [][ItemFails =>
            /\ Last(results').baseId = baseIds[i + 1]
            /\ pc = "audio" =>
                  FailedAt(Last(results'), "Audio processing failed for",
                           ReconstructionErrors)
            /\ pc = "speech" =>
                  FailedAt(Last(results'), "Speech processing failed for",
                           TranscriptionErrors)
            /\ pc \in {"audio", "speech"}]_vars
C27_Witness ==
    /\ Len(results) = 2
    /\ ~results[1].success
    /\ ~results[2].success
    /\ results[1].error.text = "Audio processing failed for"
    /\ results[1].error.cause.text = "Invalid timing entry at index"
    /\ results[2].error.text = "Speech processing failed for"
    /\ results[2].error.cause.text = "Speech transcription failed"
    /\ results[2].error.cause.cause.text = "ProviderError"

(***************************************************************************)
(* The shared data path: C28                                               *)
(***************************************************************************)
\* C28: when processCompleteWorkflow has returned, with a success or a
\* failure result, PATHS.DATA_DIR is the value it had before the call, and
\* after the batch run it is the initial value.
C28_DataDirRestored ==
    /\ pc = "loop" /\ i > 0 => dataDir = originalDataDir
    /\ pc = "done" => dataDir = PATHS_DATA_DIR

(***************************************************************************)
(* Termination: C29                                                        *)
(***************************************************************************)
AllItemsTerminal ==
    /\ Len(results) = Len(baseIds)
    /\ \A k \in DOMAIN baseIds : results[k].baseId = baseIds[k]

\* C29: if every awaited call returns, processFolderBatch returns a result,
\* and once the ids are discovered every one of them gets its result,
\* successful or failed, before the batch result is returned.
C29_BatchTerminates ==
    /\ <>(pc = "done" /\ batchResult.done)
    /\ [](pc = "loop" => <>(pc = "done" /\ batchResult.done /\ AllItemsTerminal))
C29_Witness ==
    /\ pc = "done"
    /\ batchResult.done
    /\ Len(baseIds) = 2
    /\ AllItemsTerminal
    /\ ~results[1].success
    /\ results[2].success

====
